---- MODULE Spec2Model ----
(***************************************************************************)
(* A model of the lox-rs tree-walking interpreter: the resolver            *)
(* (interpreter/src/resolver.rs), the environment chain (ast/src/env.rs,   *)
(* ast/src/lib.rs), the evaluator (interpreter/src/evaluator.rs), the      *)
(* callable dispatch (interpreter/src/callable.rs), the runtime objects    *)
(* (ast/src/ast.rs) and the statement runner (src/interpreter.rs).         *)
(*                                                                         *)
(* Rust reference cells are modelled by two heaps: `heap` holds the        *)
(* EnvInner objects (an Env is an index into it) and `insts` holds the     *)
(* ClassInstance cells.  FuncObject and ClassObject are values, as in the  *)
(* source, where they are cloned.                                          *)
(***************************************************************************)
EXTENDS Integers, Sequences, FiniteSets, TLC

\* ------------------------------------------------------------------------
\* Syntax trees (ast/src/ast.rs).  An Identifier carries its lexeme and, for
\* the occurrences the resolver records, the tag `rid` that keys `locals`.
\* ------------------------------------------------------------------------
None == [none |-> TRUE]

ENil == [k |-> "Nil"]
EInt(i) == [k |-> "Int", n |-> i]
\* the literal of the value n/d
EFloat(n, d) == [k |-> "Float", n |-> n, d |-> d]
EBool(b) == [k |-> "Boolean", b |-> b]
EStr(s) == [k |-> "String", s |-> s]
EIdent(name) == [k |-> "Ident", name |-> name, rid |-> 0]
EUnary(op, e) == [k |-> "Unary", op |-> op, e |-> e]
EBinary(op, e1, e2) == [k |-> "Binary", op |-> op, e1 |-> e1, e2 |-> e2]
EAssign(name, e) == [k |-> "Assign", name |-> name, rid |-> 0, e |-> e]
ELogical(op, e1, e2) == [k |-> "Logical", op |-> op, e1 |-> e1, e2 |-> e2]
ECall(callee, args) == [k |-> "Call", callee |-> callee, args |-> args]
ELambda(params, body) == [k |-> "Lambda", params |-> params, body |-> body]
EGet(object, property) == [k |-> "Get", object |-> object, property |-> property]
ESet(object, property, value) ==
    [k |-> "Set", object |-> object, property |-> property, value |-> value]
EThis == [k |-> "This", name |-> "this", rid |-> 0]
ESuper(method) == [k |-> "Super", name |-> "super", rid |-> 0, method |-> method]

SPrint(e) == [k |-> "Print", e |-> e]
SExpr(e) == [k |-> "Expr", e |-> e]
SVar(name, definition) == [k |-> "VariableDecl", name |-> name, definition |-> definition]
SBlock(stmts) == [k |-> "Block", stmts |-> stmts]
SIf(cond, if_branch, else_branch) ==
    [k |-> "Conditional", cond |-> cond, if_branch |-> if_branch,
     else_branch |-> else_branch]
SLoop(cond, body) == [k |-> "Loop", cond |-> cond, body |-> body]
FunctionDecl(name, params, body) == [name |-> name, params |-> params, body |-> body]
SFun(name, params, body) ==
    [k |-> "FunctionDecl", name |-> name, params |-> params, body |-> body]
SReturn(e) == [k |-> "Return", e |-> e]
SClass(name, super_class, methods) ==
    [k |-> "ClassDecl", name |-> name, super_class |-> super_class,
     methods |-> methods]

\* Every identifier occurrence the parser builds is a distinct Identifier
\* (Identifier::from gives each a fresh tag): Number tags them 1, 2, ...
\* in source order.
RECURSIVE NumberExpr(_, _), NumberExprs(_, _, _), NumberStmt(_, _)
RECURSIVE NumberStmts(_, _, _), NumberMethods(_, _, _)
NumberExpr(expr, n) ==
    CASE expr.k \in {"Ident", "This", "Super"} ->
            [x |-> [expr EXCEPT !.rid = n], n |-> n + 1]
      [] expr.k = "Assign" ->
            LET e == NumberExpr(expr.e, n + 1)
            IN  [x |-> [expr EXCEPT !.rid = n, !.e = e.x], n |-> e.n]
      [] expr.k = "Unary" ->
            LET e == NumberExpr(expr.e, n)
            IN  [x |-> [expr EXCEPT !.e = e.x], n |-> e.n]
      [] expr.k \in {"Binary", "Logical"} ->
            LET e1 == NumberExpr(expr.e1, n)
                e2 == NumberExpr(expr.e2, e1.n)
            IN  [x |-> [expr EXCEPT !.e1 = e1.x, !.e2 = e2.x], n |-> e2.n]
      [] expr.k = "Call" ->
            LET callee == NumberExpr(expr.callee, n)
                args == NumberExprs(expr.args, callee.n, <<>>)
            IN  [x |-> [expr EXCEPT !.callee = callee.x, !.args = args.x],
                 n |-> args.n]
      [] expr.k = "Lambda" ->
            LET body == NumberStmts(expr.body, n, <<>>)
            IN  [x |-> [expr EXCEPT !.body = body.x], n |-> body.n]
      [] expr.k = "Get" ->
            LET object == NumberExpr(expr.object, n)
            IN  [x |-> [expr EXCEPT !.object = object.x], n |-> object.n]
      [] expr.k = "Set" ->
            LET object == NumberExpr(expr.object, n)
                value == NumberExpr(expr.value, object.n)
            IN  [x |-> [expr EXCEPT !.object = object.x, !.value = value.x],
                 n |-> value.n]
      [] OTHER -> [x |-> expr, n |-> n]

NumberExprs(exprs, n, acc) ==
    IF exprs = <<>> THEN [x |-> acc, n |-> n]
    ELSE LET e == NumberExpr(Head(exprs), n)
         IN  NumberExprs(Tail(exprs), e.n, Append(acc, e.x))

NumberStmt(stmt, n) ==
    CASE stmt.k \in {"Print", "Expr", "Return"} ->
            LET e == NumberExpr(stmt.e, n)
            IN  [x |-> [stmt EXCEPT !.e = e.x], n |-> e.n]
      [] stmt.k = "VariableDecl" ->
            IF stmt.definition = None THEN [x |-> stmt, n |-> n]
            ELSE LET e == NumberExpr(stmt.definition, n)
                 IN  [x |-> [stmt EXCEPT !.definition = e.x], n |-> e.n]
      [] stmt.k = "Block" ->
            LET b == NumberStmts(stmt.stmts, n, <<>>)
            IN  [x |-> [stmt EXCEPT !.stmts = b.x], n |-> b.n]
      [] stmt.k = "Conditional" ->
            LET cond == NumberExpr(stmt.cond, n)
                if_branch == NumberStmt(stmt.if_branch, cond.n)
                else_branch == IF stmt.else_branch = None
                               THEN [x |-> None, n |-> if_branch.n]
                               ELSE NumberStmt(stmt.else_branch, if_branch.n)
            IN  [x |-> [stmt EXCEPT !.cond = cond.x, !.if_branch = if_branch.x,
                                    !.else_branch = else_branch.x],
                 n |-> else_branch.n]
      [] stmt.k = "Loop" ->
            LET cond == NumberExpr(stmt.cond, n)
                body == NumberStmt(stmt.body, cond.n)
            IN  [x |-> [stmt EXCEPT !.cond = cond.x, !.body = body.x], n |-> body.n]
      [] stmt.k = "FunctionDecl" ->
            LET body == NumberStmts(stmt.body, n, <<>>)
            IN  [x |-> [stmt EXCEPT !.body = body.x], n |-> body.n]
      [] stmt.k = "ClassDecl" ->
            LET super_class == IF stmt.super_class = None
                               THEN [x |-> None, n |-> n]
                               ELSE NumberExpr(stmt.super_class, n)
                methods == NumberMethods(stmt.methods, super_class.n, <<>>)
            IN  [x |-> [stmt EXCEPT !.super_class = super_class.x,
                                    !.methods = methods.x],
                 n |-> methods.n]

NumberStmts(stmts, n, acc) ==
    IF stmts = <<>> THEN [x |-> acc, n |-> n]
    ELSE LET b == NumberStmt(Head(stmts), n)
         IN  NumberStmts(Tail(stmts), b.n, Append(acc, b.x))

NumberMethods(methods, n, acc) ==
    IF methods = <<>> THEN [x |-> acc, n |-> n]
    ELSE LET body == NumberStmts(Head(methods).body, n, <<>>)
         IN  NumberMethods(Tail(methods), body.n,
                           Append(acc, [Head(methods) EXCEPT !.body = body.x]))

Number(stmts) == NumberStmts(stmts, 1, <<>>).x

\* Parser::for_stmt with neither initializer nor update, and while
SFor(cond, body) == SBlock(<<SLoop(cond, SBlock(<<body>>))>>)

EmptyMap == [x \in {} |-> None]
Insert(m, key, v) == (key :> v) @@ m

\* ------------------------------------------------------------------------
\* Resolver (interpreter/src/resolver.rs).  `locals` is the interpreter's
\* table filled through Interpreter::resolve.
\* ------------------------------------------------------------------------
NewResolver ==
    [scopes |-> <<EmptyMap>>, current_function |-> "None",
     current_class |-> "None", current_loop |-> "None", err |-> "Ok",
     locals |-> EmptyMap]

begin_scope(rs) == [rs EXCEPT !.scopes = Append(@, EmptyMap)]

end_scope(rs) == [rs EXCEPT !.scopes = SubSeq(@, 1, Len(@) - 1)]

declare(rs, name) ==
    IF rs.scopes = <<>> THEN rs
    ELSE IF name \in DOMAIN rs.scopes[Len(rs.scopes)]
         THEN [rs EXCEPT !.err = "AlreadyDeclared"]
         ELSE [rs EXCEPT !.scopes[Len(rs.scopes)] = Insert(@, name, "Declared")]

define(rs, name) ==
    IF rs.scopes = <<>> THEN rs
    ELSE [rs EXCEPT !.scopes[Len(rs.scopes)] = Insert(@, name, "Defined")]

init(rs, name) ==
    IF rs.scopes = <<>> THEN rs
    ELSE [rs EXCEPT !.scopes[Len(rs.scopes)] = Insert(@, name, "Initialized")]

\* a lookup that takes every binding it finds to be initialized
resolve_local_unchecked(rs, name, rid, check_initialized) ==
    LET n == Len(rs.scopes)
        found == {i \in 0..(n - 1) : name \in DOMAIN rs.scopes[n - i]}
    IN  IF found = {}
        THEN [rs EXCEPT !.err = IF name = "super" THEN "SuperWithoutSuperclass"
                                                   ELSE "UnknownVariable"]
        ELSE LET i == CHOOSE j \in found : \A j2 \in found : j <= j2
             IN  [rs EXCEPT !.scopes[n - i] = Insert(@, name, "Initialized"),
                            !.locals = Insert(@, rid, i)]

\* rs.locals is the `interpreter` argument: Interpreter::resolve inserts there
resolve_local(rs, name, rid, check_initialized) ==
    LET n == Len(rs.scopes)
        found == {i \in 0..(n - 1) : name \in DOMAIN rs.scopes[n - i]}
    IN  IF found = {}
        THEN [rs EXCEPT !.err = IF name = "super" THEN "SuperWithoutSuperclass"
                                                   ELSE "UnknownVariable"]
        ELSE LET i == CHOOSE j \in found : \A j2 \in found : j <= j2
                 b == rs.scopes[n - i][name]
             IN  IF b # "Initialized" /\ check_initialized
                 THEN [rs EXCEPT !.err = "UninitializedAccess"]
                 ELSE [rs EXCEPT !.scopes[n - i] = Insert(@, name, "Initialized"),
                                 !.locals = Insert(@, rid, i)]

RECURSIVE resolve_stmt(_, _), resolve_expr(_, _), resolve(_, _)
RECURSIVE resolve_args(_, _), resolve_methods(_, _)

init_params(rs, params) ==
    LET RECURSIVE go(_, _)
        go(r, i) == IF i > Len(params) THEN r ELSE go(init(r, params[i]), i + 1)
    IN  go(rs, 1)

\* a function whose end leaves the resolver inside a function
resolve_function_keep(rs, params, body, ftype) ==
    LET r1 == init_params(begin_scope([rs EXCEPT !.current_function = ftype]), params)
        r2 == resolve(r1, body)
    IN  IF r2.err # "Ok" THEN r2 ELSE end_scope(r2)

resolve_function(rs, params, body, ftype) ==
    LET enclosing_function == rs.current_function
        r1 == init_params(begin_scope([rs EXCEPT !.current_function = ftype]), params)
        r2 == resolve(r1, body)
    IN  IF r2.err # "Ok" THEN r2
        ELSE [end_scope(r2) EXCEPT !.current_function = enclosing_function]

resolve_args(rs, args) ==
    IF rs.err # "Ok" \/ args = <<>> THEN rs
    ELSE resolve_args(resolve_expr(rs, Head(args)), Tail(args))

resolve_methods(rs, methods) ==
    IF rs.err # "Ok" \/ methods = <<>> THEN rs
    ELSE LET method == Head(methods)
             declaration == IF method.name = "init" THEN "Initializer"
                                                    ELSE "ClassMethod"
         IN  resolve_methods(
                 resolve_function(rs, method.params, method.body, declaration),
                 Tail(methods))

resolve_expr(rs, expr) ==
    CASE expr.k \in {"Nil", "Int", "Float", "Boolean", "String"} -> rs
      [] expr.k = "Ident" ->
            IF /\ rs.scopes # <<>>
               /\ expr.name \in DOMAIN rs.scopes[Len(rs.scopes)]
               /\ rs.scopes[Len(rs.scopes)][expr.name] = "Declared"
            THEN [rs EXCEPT !.err = "ReadInOwnInitializer"]
            ELSE resolve_local(rs, expr.name, expr.rid, TRUE)
      [] expr.k = "Unary" -> resolve_expr(rs, expr.e)
      [] expr.k \in {"Binary", "Logical"} ->
            LET r1 == resolve_expr(rs, expr.e1)
            IN  IF r1.err # "Ok" THEN r1 ELSE resolve_expr(r1, expr.e2)
      [] expr.k = "Assign" ->
            LET r1 == resolve_expr(rs, expr.e)
            IN  IF r1.err # "Ok" THEN r1
                ELSE resolve_local(r1, expr.name, expr.rid, FALSE)
      [] expr.k = "Call" ->
            LET r1 == resolve_expr(rs, expr.callee)
            IN  resolve_args(r1, expr.args)
      [] expr.k = "Lambda" ->
            resolve_function(rs, expr.params, expr.body, "Function")
      [] expr.k = "Get" -> resolve_expr(rs, expr.object)
      [] expr.k = "Set" ->
            LET r1 == resolve_expr(rs, expr.object)
            IN  IF r1.err # "Ok" THEN r1 ELSE resolve_expr(r1, expr.value)
      [] expr.k = "This" ->
            IF rs.current_class = "None"
            THEN [rs EXCEPT !.err = "ThisOutsideClass"]
            ELSE resolve_local(rs, expr.name, expr.rid, FALSE)
      [] expr.k = "Super" ->
            IF rs.current_class = "None"
            THEN [rs EXCEPT !.err = "SuperOutsideClass"]
            ELSE resolve_local(rs, expr.name, expr.rid, FALSE)

resolve_stmt(rs, stmt) ==
    CASE stmt.k \in {"Print", "Expr"} -> resolve_expr(rs, stmt.e)
      [] stmt.k = "VariableDecl" ->
            LET r1 == declare(rs, stmt.name)
            IN  IF r1.err # "Ok" THEN r1
                ELSE IF stmt.definition # None
                     THEN LET r2 == resolve_expr(r1, stmt.definition)
                          IN  IF r2.err # "Ok" THEN r2 ELSE init(r2, stmt.name)
                     ELSE define(r1, stmt.name)
      [] stmt.k = "Block" ->
            LET r1 == resolve(begin_scope(rs), stmt.stmts)
            IN  IF r1.err # "Ok" THEN r1 ELSE end_scope(r1)
      [] stmt.k = "Conditional" ->
            LET r1 == resolve_expr(rs, stmt.cond)
                r2 == IF r1.err # "Ok" THEN r1 ELSE resolve_stmt(r1, stmt.if_branch)
            IN  IF r2.err # "Ok" \/ stmt.else_branch = None THEN r2
                ELSE resolve_stmt(r2, stmt.else_branch)
      [] stmt.k = "Loop" ->
            LET previous_loop == rs.current_loop
                r1 == resolve_expr([rs EXCEPT !.current_loop = "InLoop"], stmt.cond)
                r2 == IF r1.err # "Ok" THEN r1 ELSE resolve_stmt(r1, stmt.body)
            IN  IF r2.err # "Ok" THEN r2
                ELSE [r2 EXCEPT !.current_loop = previous_loop]
      [] stmt.k = "FunctionDecl" ->
            resolve_function(init(rs, stmt.name), stmt.params, stmt.body, "Function")
      [] stmt.k = "Return" ->
            IF rs.current_function = "None"
            THEN [rs EXCEPT !.err = "ReturnAtTopLevel"]
            ELSE IF rs.current_function = "Initializer" /\ stmt.e # ENil
                 THEN [rs EXCEPT !.err = "ReturnValueFromInitializer"]
                 ELSE resolve_expr(rs, stmt.e)
      [] stmt.k = "ClassDecl" ->
            LET enclosing_class == rs.current_class
                r0 == [init(rs, stmt.name) EXCEPT !.current_class = "Class"]
                has_super == stmt.super_class # None
                r1 == IF ~has_super THEN r0
                      ELSE IF /\ stmt.super_class.k = "Ident"
                              /\ stmt.super_class.name = stmt.name
                           THEN [r0 EXCEPT !.err = "InheritFromItself"]
                           ELSE LET r == resolve_expr(r0, stmt.super_class)
                                IN  IF r.err # "Ok" THEN r
                                    ELSE init(begin_scope(r), "super")
                r2 == IF r1.err # "Ok" THEN r1
                      ELSE resolve_methods(init(begin_scope(r1), "this"), stmt.methods)
            IN  IF r2.err # "Ok" THEN r2
                ELSE LET r3 == end_scope(r2)
                         r4 == IF has_super THEN end_scope(r3) ELSE r3
                     IN  [r4 EXCEPT !.current_class = enclosing_class]

resolve(rs, stmts) ==
    IF rs.err # "Ok" \/ stmts = <<>> THEN rs
    ELSE resolve(resolve_stmt(rs, Head(stmts)), Tail(stmts))

\* ------------------------------------------------------------------------
\* Runtime objects (ast/src/ast.rs)
\* ------------------------------------------------------------------------
VNil == [t |-> "Nil"]
VInt(i) == [t |-> "Int", n |-> i]
VBool(b) == [t |-> "Boolean", b |-> b]
VStr(s) == [t |-> "String", s |-> s]
VFunction(f) == [t |-> "Function", f |-> f]
VClass(c) == [t |-> "Class", c |-> c]
VInstance(ref) == [t |-> "Instance", ref |-> ref]

\* FuncObject::new / new_lambda; a lambda's name (None) is the empty string
FuncObject(name, params, body, closure, is_initializer) ==
    [name |-> name, params |-> params, body |-> body, closure |-> closure,
     is_initializer |-> is_initializer]

ClassObject(name, super_class, methods) ==
    [name |-> name, super_class |-> super_class, methods |-> methods]

RECURSIVE find_method(_, _)
\* a search of the class's own methods only
find_method_own(class, property) ==
    IF property \in DOMAIN class.methods THEN class.methods[property] ELSE None

find_method(class, property) ==
    IF property \in DOMAIN class.methods THEN class.methods[property]
    ELSE IF class.super_class # None THEN find_method(class.super_class, property)
         ELSE None

\* a truth test in which the Int 0 is false as well
is_truth_zero_false(o) ==
    ~(o.t = "Nil" \/ (o.t = "Boolean" /\ o.b = FALSE) \/ (o.t = "Int" /\ o.n = 0))

is_truth(o) == ~(o.t = "Nil" \/ (o.t = "Boolean" /\ o.b = FALSE))

\* ------------------------------------------------------------------------
\* f64.  A Float is a class c and, when finite, the rational n/d in lowest
\* terms that it denotes: "fin" (n/d, 0/1 being +0.0), "-0", "+inf", "-inf"
\* or "nan".  The programs checked keep to values f64 holds exactly.
\* ------------------------------------------------------------------------
VFloat(c, n, d) == [t |-> "Float", c |-> c, n |-> n, d |-> d]

Abs(i) == IF i < 0 THEN -i ELSE i

RECURSIVE Gcd(_, _)
Gcd(a, b) == IF b = 0 THEN a ELSE Gcd(b, a % b)

Fin(n, d) == LET g == Gcd(Abs(n), d) IN VFloat("fin", n \div g, d \div g)
FZero(negative) == IF negative THEN VFloat("-0", 0, 1) ELSE VFloat("fin", 0, 1)
FInf(negative) == IF negative THEN VFloat("-inf", 0, 1) ELSE VFloat("+inf", 0, 1)
FNaN == VFloat("nan", 0, 1)

\* `i as f64`
as_f64(i) == Fin(i, 1)

FIsFinite(x) == x.c \in {"fin", "-0"}
FIsZero(x) == FIsFinite(x) /\ x.n = 0
FIsInf(x) == x.c \in {"+inf", "-inf"}
\* the sign bit
FNegative(x) == x.c \in {"-0", "-inf"} \/ (x.c = "fin" /\ x.n < 0)

FNeg(x) ==
    CASE x.c = "nan" -> x
      [] FIsInf(x) -> FInf(~FNegative(x))
      [] FIsZero(x) -> FZero(~FNegative(x))
      [] OTHER -> Fin(-x.n, x.d)

FAdd(x, y) ==
    CASE x.c = "nan" \/ y.c = "nan" -> FNaN
      [] FIsInf(x) /\ FIsInf(y) -> IF x.c = y.c THEN x ELSE FNaN
      [] FIsInf(x) -> x
      [] FIsInf(y) -> y
      [] OTHER ->
            LET n == x.n * y.d + y.n * x.d
            IN  IF n = 0 THEN FZero(FNegative(x) /\ FNegative(y) /\ FIsZero(x))
                ELSE Fin(n, x.d * y.d)

FSub(x, y) == FAdd(x, FNeg(y))

FMul(x, y) ==
    LET negative == FNegative(x) # FNegative(y)
    IN  CASE x.c = "nan" \/ y.c = "nan" -> FNaN
          [] (FIsInf(x) /\ FIsZero(y)) \/ (FIsZero(x) /\ FIsInf(y)) -> FNaN
          [] FIsInf(x) \/ FIsInf(y) -> FInf(negative)
          [] FIsZero(x) \/ FIsZero(y) -> FZero(negative)
          [] OTHER -> Fin(x.n * y.n, x.d * y.d)

\* IEEE 754 division: a finite value over a zero is an infinity, 0/0 is NaN
FDiv(x, y) ==
    LET negative == FNegative(x) # FNegative(y)
    IN  CASE x.c = "nan" \/ y.c = "nan" -> FNaN
          [] (FIsZero(x) /\ FIsZero(y)) \/ (FIsInf(x) /\ FIsInf(y)) -> FNaN
          [] FIsInf(x) \/ FIsZero(y) -> FInf(negative)
          [] FIsInf(y) \/ FIsZero(x) -> FZero(negative)
          [] OTHER -> Fin((IF negative THEN -1 ELSE 1) * Abs(x.n) * y.d,
                          x.d * Abs(y.n))

\* f64's ==: NaN equals nothing, -0.0 equals 0.0
FEq(x, y) ==
    CASE x.c = "nan" \/ y.c = "nan" -> FALSE
      [] FIsInf(x) \/ FIsInf(y) -> x.c = y.c
      [] OTHER -> x.n = y.n /\ x.d = y.d

FLt(x, y) ==
    CASE x.c = "nan" \/ y.c = "nan" -> FALSE
      [] x.c = "+inf" \/ y.c = "-inf" -> FALSE
      [] x.c = "-inf" \/ y.c = "+inf" -> TRUE
      [] OTHER -> x.n * y.d < y.n * x.d

\* the digits after the point of r/d, 0 < r < d (at most 16 of them)
RECURSIVE FracDigits(_, _, _)
FracDigits(r, d, left) ==
    IF r = 0 \/ left = 0 THEN ""
    ELSE ToString((r * 10) \div d) \o FracDigits((r * 10) % d, d, left - 1)

\* `{}` of an f64
FDisplay(x) ==
    CASE x.c = "nan" -> "NaN"
      [] x.c = "+inf" -> "inf"
      [] x.c = "-inf" -> "-inf"
      [] x.c = "-0" -> "-0"
      [] OTHER ->
            LET m == Abs(x.n)
                whole == (IF x.n < 0 THEN "-" ELSE "") \o ToString(m \div x.d)
            IN  IF m % x.d = 0 THEN whole
                ELSE whole \o "." \o FracDigits(m % x.d, x.d, 16)

\* impl PartialEq for FuncObject: name, params and body, not the closure
FuncEq(f, g) == f.name = g.name /\ f.params = g.params /\ f.body = g.body

RECURSIVE ClassEq(_, _)
ClassEq(c, d) ==
    /\ c.name = d.name
    /\ (c.super_class = None) = (d.super_class = None)
    /\ (c.super_class # None => ClassEq(c.super_class, d.super_class))
    /\ DOMAIN c.methods = DOMAIN d.methods
    /\ \A m \in DOMAIN c.methods : FuncEq(c.methods[m], d.methods[m])

\* the nested comparisons of instances the native stack holds
MaxEqDepth == 3

\* derive(PartialEq) for Object, ClassInstance and the HashMap of fields:
\* "Eq", "Ne", or "Overflow" when the comparison of instances nests deeper
\* than the stack holds.  An Rc is compared by its contents.  The fields are
\* compared in the map's iteration order up to the first pair that differs:
\* when one pair differs and another one overflows, hasher says which of
\* them the iteration meets first.
RECURSIVE ObjectEq(_, _, _, _, _)
ObjectEq(a, b, insts, hasher, depth) ==
    IF a.t # b.t THEN "Ne"
    ELSE CASE a.t = "Instance" ->
                LET x == insts[a.ref]
                    y == insts[b.ref]
                    pairs == {ObjectEq(x.fields[p], y.fields[p], insts, hasher,
                                       depth - 1) :
                                 p \in DOMAIN x.fields \cap DOMAIN y.fields}
                IN  IF depth = 0 THEN "Overflow"
                    ELSE IF ~ClassEq(x.class, y.class)
                            \/ DOMAIN x.fields # DOMAIN y.fields THEN "Ne"
                    ELSE IF pairs \subseteq {"Eq"} THEN "Eq"
                    ELSE IF "Overflow" \notin pairs THEN "Ne"
                    ELSE IF "Ne" \notin pairs THEN "Overflow"
                    ELSE IF hasher = "mismatch_first" THEN "Ne" ELSE "Overflow"
           [] OTHER ->
                IF CASE a.t = "Nil" -> TRUE
                     [] a.t = "Int" -> a.n = b.n
                     [] a.t = "Float" -> FEq(a, b)
                     [] a.t = "Boolean" -> a.b = b.b
                     [] a.t = "String" -> a.s = b.s
                     [] a.t = "Function" -> FuncEq(a.f, b.f)
                     [] a.t = "Class" -> ClassEq(a.c, b.c)
                THEN "Eq" ELSE "Ne"

\* ------------------------------------------------------------------------
\* Environments (ast/src/env.rs, ast/src/lib.rs).  heap[e] is the EnvInner
\* behind the Env e; enclosing = 0 is None.
\* ------------------------------------------------------------------------
EnvInner(enclosing) == [values |-> EmptyMap, enclosing |-> enclosing]

\* the heap after push_env(env); the new Env is Len(heap) + 1
push_env(heap, env) == Append(heap, EnvInner(env))

\* pop_env: the enclosing Env, 0 when the `expect` panics
pop_env(heap, env) == heap[env].enclosing

init_variable(heap, env, name, o) ==
    [heap EXCEPT ![env].values = Insert(@, name, o)]

RECURSIVE _get_env(_, _, _, _)
\* a lookup by name alone: the nearest environment that holds the name
_get_env_nearest(heap, env, name, up) ==
    LET RECURSIVE walk(_)
        walk(e) ==
            IF name \in DOMAIN heap[e].values THEN [r |-> "Ok", env |-> e]
            ELSE IF heap[e].enclosing # 0 THEN walk(heap[e].enclosing)
                 ELSE [r |-> "UndefinedVariable", env |-> 0]
    IN  walk(env)

_get_env(heap, env, name, up) ==
    IF up = 0
    THEN IF name \in DOMAIN heap[env].values
         THEN [r |-> "Ok", env |-> env]
         ELSE [r |-> "UndefinedVariable", env |-> 0]
    ELSE IF heap[env].enclosing # 0
         THEN _get_env(heap, heap[env].enclosing, name, up - 1)
         ELSE [r |-> "NoEnclosingEnv", env |-> 0]

\* a lookup that falls back to the nearest environment holding the name
get_env_fallback(heap, env, name, up) ==
    LET exact == _get_env(heap, env, name, up)
        matching_env == IF exact.r = "Ok" THEN exact
                        ELSE _get_env_nearest(heap, env, name, up)
    IN  IF matching_env.r # "Ok" THEN [r |-> matching_env.r, v |-> VNil]
        ELSE IF heap[matching_env.env].values[name] = None
             THEN [r |-> "UnintializedVariableAccessed", v |-> VNil]
             ELSE [r |-> "Ok", v |-> heap[matching_env.env].values[name]]

\* a declared name without a value (declare_variable) holds None
get_env(heap, env, name, up) ==
    LET matching_env == _get_env(heap, env, name, up)
    IN  IF matching_env.r # "Ok" THEN [r |-> matching_env.r, v |-> VNil]
        ELSE IF heap[matching_env.env].values[name] = None
             THEN [r |-> "UnintializedVariableAccessed", v |-> VNil]
             ELSE [r |-> "Ok", v |-> heap[matching_env.env].values[name]]

\* an assignment that writes a copy into the environment it starts from
assign_env_local(heap, env, name, up, value) ==
    LET matching_env == _get_env(heap, env, name, up)
    IN  IF matching_env.r # "Ok" THEN [r |-> matching_env.r, heap |-> heap]
        ELSE [r |-> "Ok", heap |-> init_variable(heap, env, name, value)]

assign_env(heap, env, name, up, value) ==
    LET matching_env == _get_env(heap, env, name, up)
    IN  IF matching_env.r # "Ok" THEN [r |-> matching_env.r, heap |-> heap]
        ELSE [r |-> "Ok",
              heap |-> [heap EXCEPT ![matching_env.env].values[name] = value]]

\* ------------------------------------------------------------------------
\* Interpreter state (src/interpreter.rs) threaded through evaluation:
\*   env, envs, locals : the Interpreter's fields
\*   heap, insts       : the reference cells
\*   writer            : the lines written to the output sink
\*   log               : a history of calls, returns and bindings
\* A result is [st, r, v]: r is "Ok", "RetJump" (v the returned object) or
\* the kind of the error.
\* ------------------------------------------------------------------------
MaxLoopIter == 4
MaxCallDepth == 4

Ok(st, v) == [st |-> st, r |-> "Ok", v |-> v]
Err(st, kind) == [st |-> st, r |-> kind, v |-> VNil]
Log(st, ev) == [st EXCEPT !.log = Append(@, ev)]

\* a save that keeps running in the caller's environment
save_env_stay(st, env) == [st EXCEPT !.envs = Append(@, st.env)]

save_env(st, env) == [st EXCEPT !.envs = Append(@, st.env), !.env = env]

\* `expect` on the empty stack panics: env 0
reset_env(st) ==
    IF st.envs = <<>> THEN [st EXCEPT !.env = 0]
    ELSE [st EXCEPT !.env = st.envs[Len(st.envs)],
                    !.envs = SubSeq(@, 1, Len(@) - 1)]

push_scope(st) ==
    [st EXCEPT !.heap = push_env(@, st.env), !.env = Len(st.heap) + 1]

\* the block's scope stays the current environment
pop_scope_stay(st) == st

pop_scope(st) == [st EXCEPT !.env = pop_env(st.heap, st.env)]

get_distance(st, rid) == IF rid \in DOMAIN st.locals THEN st.locals[rid] ELSE -1

\* a bind that defines `this` in the method's closure itself
bind_in_closure(st, f, instance) ==
    LET heap1 == init_variable(st.heap, f.closure, "this", VInstance(instance))
    IN  [st |-> Log([st EXCEPT !.heap = heap1],
                    [e |-> "bind", method |-> f.name, closure |-> f.closure,
                     env |-> f.closure, ref |-> instance,
                     before |-> st.heap[f.closure],
                     after |-> heap1[f.closure]]),
         f |-> f]

\* FuncObject::bind: `this` goes into a new child of the method's closure
bind(st, f, instance) ==
    LET env == Len(st.heap) + 1
        heap1 == init_variable(push_env(st.heap, f.closure), env, "this",
                               VInstance(instance))
    IN  [st |-> Log([st EXCEPT !.heap = heap1],
                    [e |-> "bind", method |-> f.name, closure |-> f.closure,
                     env |-> env, ref |-> instance,
                     before |-> st.heap[f.closure],
                     after |-> heap1[f.closure]]),
         f |-> [f EXCEPT !.closure = env]]

\* a get that looks for a method before it looks at the fields
InstanceGet_methods_first(st, property, instance) ==
    LET m == find_method(st.insts[instance].class, property)
    IN  IF m # None
        THEN LET b == bind(st, m, instance) IN Ok(b.st, VFunction(b.f))
        ELSE IF property \in DOMAIN st.insts[instance].fields
             THEN Ok(st, st.insts[instance].fields[property])
             ELSE Err(st, "UndefinedProperty")

\* ClassInstance::get
InstanceGet(st, property, instance) ==
    IF property \in DOMAIN st.insts[instance].fields
    THEN Ok(st, st.insts[instance].fields[property])
    ELSE LET m == find_method(st.insts[instance].class, property)
         IN  IF m # None
             THEN LET b == bind(st, m, instance) IN Ok(b.st, VFunction(b.f))
             ELSE Err(st, "UndefinedProperty")

\* ClassInstance::set
InstanceSet(st, instance, property, value) ==
    [st EXCEPT !.insts[instance].fields = Insert(@, property, value)]

\* an arity taken from the class's own init only
ClassArity_own(c) ==
    IF "init" \in DOMAIN c.methods THEN Len(c.methods["init"].params) ELSE 0

\* impl Arity for ClassObject
ClassArity(c) ==
    LET init_method == find_method(c, "init")
    IN  IF init_method # None THEN Len(init_method.params) ELSE 0

\* Int(i64), at the width IntBits
IntBits == 12
IntMax == 2 ^ (IntBits - 1) - 1
IntMin == -(2 ^ (IntBits - 1))

\* two's complement wrap-around
wrapping(n) == ((n - IntMin) % (2 ^ IntBits)) + IntMin

\* the i64 result of `+`, `-`, `*` and unary `-` whose mathematical result
\* is n: outside the range it is a panic ("attempt to ... with overflow")
\* when the build has overflow checks and wraps around when it has not
IntResult(st, n) ==
    IF n >= IntMin /\ n <= IntMax THEN Ok(st, VInt(n))
    ELSE IF st.overflow_checks THEN Err(st, "Panic")
    ELSE Ok(st, VInt(wrapping(n)))

\* i64 division truncates toward zero
IntDiv(a, b) ==
    LET q == (IF a < 0 THEN -a ELSE a) \div (IF b < 0 THEN -b ELSE b)
    IN  IF (a < 0) = (b < 0) THEN q ELSE -q

\* impl Display for Object
Display(st, o) ==
    CASE o.t = "Nil" -> "nil"
      [] o.t = "Int" -> ToString(o.n)
      [] o.t = "Float" -> FDisplay(o)
      [] o.t = "Boolean" -> IF o.b THEN "true" ELSE "false"
      [] o.t = "String" -> "\"" \o o.s \o "\""
      [] o.t = "Function" -> IF o.f.name # "" THEN "<fn " \o o.f.name \o ">"
                                              ELSE "<closure>"
      [] o.t = "Class" -> "<class " \o o.c.name \o ">"
      [] o.t = "Instance" -> "<instance@" \o st.insts[o.ref].class.name \o ">"

\* a divisor that is only the Int 0
DivideByZero_int_only(a, b) ==
    a.t \in {"Float", "Int"} /\ b.t = "Int" /\ b.n = 0

\* the two arms of Expr::Binary that refuse a zero divisor
DivideByZero(a, b) ==
    /\ a.t \in {"Float", "Int"}
    /\ \/ b.t = "Int" /\ b.n = 0
       \/ b.t = "Float" /\ FEq(b, FZero(FALSE))

\* the match on (bop, left, right) of Expr::Binary; i64 division by zero
\* panics, and a comparison that overflows the stack aborts the process
BinaryOp(st, bop, a, b) ==
    LET f(x) == IF x.t = "Int" THEN as_f64(x.n) ELSE x
        ints == a.t = "Int" /\ b.t = "Int"
        floats == a.t = "Float" /\ b.t = "Float"
        mixed == {a.t, b.t} \subseteq {"Int", "Float"} /\ ~ints
    IN  CASE bop = "Add" /\ a.t = "String" /\ b.t = "String" ->
                Ok(st, VStr(a.s \o b.s))
          [] bop = "Add" /\ ints -> IntResult(st, a.n + b.n)
          [] bop = "Sub" /\ ints -> IntResult(st, a.n - b.n)
          [] bop = "Mul" /\ ints -> IntResult(st, a.n * b.n)
          [] bop = "Div" /\ DivideByZero(a, b) -> Err(st, "DivideByZero")
          [] bop = "Div" /\ ints ->
                \* "attempt to divide by zero", "attempt to divide with
                \* overflow": a panic in every build
                IF b.n = 0 \/ (a.n = IntMin /\ b.n = -1) THEN Err(st, "Panic")
                ELSE Ok(st, VInt(IntDiv(a.n, b.n)))
          [] bop = "Add" /\ mixed -> Ok(st, FAdd(f(a), f(b)))
          [] bop = "Sub" /\ mixed -> Ok(st, FSub(f(a), f(b)))
          [] bop = "Mul" /\ mixed -> Ok(st, FMul(f(a), f(b)))
          [] bop = "Div" /\ mixed -> Ok(st, FDiv(f(a), f(b)))
          [] bop = "Lt" /\ ints -> Ok(st, VBool(a.n < b.n))
          [] bop = "Gt" /\ ints -> Ok(st, VBool(a.n > b.n))
          [] bop = "Le" /\ ints -> Ok(st, VBool(a.n <= b.n))
          [] bop = "Ge" /\ ints -> Ok(st, VBool(a.n >= b.n))
          [] bop = "Lt" /\ floats -> Ok(st, VBool(FLt(a, b)))
          [] bop = "Gt" /\ floats -> Ok(st, VBool(FLt(b, a)))
          [] bop = "Le" /\ floats -> Ok(st, VBool(FLt(a, b) \/ FEq(a, b)))
          [] bop = "Ge" /\ floats -> Ok(st, VBool(FLt(b, a) \/ FEq(a, b)))
          [] bop \in {"Eq", "Ne"} ->
                LET c == ObjectEq(a, b, st.insts, st.hasher, MaxEqDepth)
                IN  IF c = "Overflow" THEN Err(st, "Abort")
                    ELSE Ok(st, VBool((c = "Eq") = (bop = "Eq")))
          [] bop = "Add" -> Err(st, "OperandsMustBeNumbersOrStrings")
          [] bop \in {"Sub", "Mul", "Div", "Lt", "Gt", "Le", "Ge"} ->
                Err(st, "OperandsMustBeNumbers")
          [] OTHER -> Err(st, "UnexpectedBinaryOperation")

RECURSIVE Evaluate(_, _, _), EvaluateArgs(_, _, _, _), Call(_, _, _)
RECURSIVE FuncCall(_, _, _), ClassCall(_, _, _)
RECURSIVE Run(_, _), RunMany(_, _), RunLoop(_, _, _)

\* the `?` operator: an error or a return jump in x is the result, else the
\* computation goes on with x
Try(x, K(_)) == IF x.r # "Ok" THEN x ELSE K(x)

\* `let x = ...;` followed by the rest of the function
Let(x, K(_)) == K(x)

\* Evaluator::evaluate (interpreter/src/evaluator.rs)
Evaluate(expr, env, st) ==
    CASE expr.k = "Nil" -> Ok(st, VNil)
      [] expr.k = "Int" -> Ok(st, VInt(expr.n))
      [] expr.k = "Float" -> Ok(st, Fin(expr.n, expr.d))
      [] expr.k = "Boolean" -> Ok(st, VBool(expr.b))
      [] expr.k = "String" -> Ok(st, VStr(expr.s))
      [] expr.k \in {"Ident", "This"} ->
            LET distance == get_distance(st, expr.rid)
                o == get_env(st.heap, env, expr.name, distance)
            IN  IF distance < 0 THEN Err(st, "Unresolved")
                ELSE IF o.r # "Ok" THEN Err(st, o.r) ELSE Ok(st, o.v)
      [] expr.k = "Unary" ->
            Try(Evaluate(expr.e, env, st), LAMBDA x :
                CASE expr.op = "Minus" /\ x.v.t = "Int" -> IntResult(x.st, -x.v.n)
                  [] expr.op = "Minus" /\ x.v.t = "Float" -> Ok(x.st, FNeg(x.v))
                  [] expr.op = "Not" -> Ok(x.st, VBool(~is_truth(x.v)))
                  [] OTHER -> Err(x.st, "OperandMustBeNumber"))
      [] expr.k = "Binary" ->
            Try(Evaluate(expr.e1, env, st), LAMBDA x :
                Try(Evaluate(expr.e2, env, x.st), LAMBDA y :
                    BinaryOp(y.st, expr.op, x.v, y.v)))
      [] expr.k = "Assign" ->
            LET distance == get_distance(st, expr.rid)
            IN  IF distance < 0 THEN Err(st, "Unresolved")
                ELSE Try(Evaluate(expr.e, env, st), LAMBDA value :
                         LET a == assign_env(value.st.heap, env, expr.name,
                                             distance, value.v)
                         IN  IF a.r # "Ok" THEN Err(value.st, a.r)
                             ELSE Ok([value.st EXCEPT !.heap = a.heap], value.v))
      [] expr.k = "Logical" ->
            Try(Evaluate(expr.e1, env, st), LAMBDA value :
                CASE expr.op = "And" ->
                        IF ~is_truth(value.v) THEN value
                        ELSE Evaluate(expr.e2, env, value.st)
                  [] expr.op = "Or" ->
                        IF is_truth(value.v) THEN value
                        ELSE Evaluate(expr.e2, env, value.st)
                  [] OTHER -> Err(value.st, "Panic"))
      [] expr.k = "Call" ->
            Try(EvaluateArgs(expr.args, env, st, <<>>), LAMBDA evaluated_args :
                Try(Evaluate(expr.callee, env, evaluated_args.st), LAMBDA callee :
                    Call(callee.v, evaluated_args.v, callee.st)))
      [] expr.k = "Lambda" ->
            Ok(st, VFunction(FuncObject("", expr.params, expr.body, st.env, FALSE)))
      [] expr.k = "Get" ->
            Try(Evaluate(expr.object, env, st), LAMBDA object :
                IF object.v.t = "Instance"
                THEN InstanceGet(object.st, expr.property, object.v.ref)
                ELSE Err(object.st, "OnlyInstancesHaveProperties"))
      [] expr.k = "Set" ->
            Try(Evaluate(expr.object, env, st), LAMBDA object :
                IF object.v.t # "Instance"
                THEN Err(object.st, "OnlyInstancesHaveFields")
                ELSE Try(Evaluate(expr.value, env, object.st), LAMBDA value :
                         Ok(InstanceSet(value.st, object.v.ref, expr.property,
                                        value.v),
                            value.v)))
      [] expr.k = "Super" ->
            LET distance == get_distance(st, expr.rid)
                super_class == get_env(st.heap, env, expr.name, distance)
                object == get_env(st.heap, env, "this", distance - 1)
            IN  IF distance < 0 THEN Err(st, "Unresolved")
                ELSE IF super_class.r # "Ok" THEN Err(st, super_class.r)
                ELSE IF super_class.v.t # "Class" THEN Err(st, "Panic")
                ELSE IF distance = 0 THEN Err(st, "Panic")
                ELSE IF object.r # "Ok" THEN Err(st, object.r)
                ELSE IF object.v.t # "Instance" THEN Err(st, "Panic")
                ELSE LET super_class_method ==
                             find_method(super_class.v.c, expr.method)
                     IN  IF super_class_method = None
                         THEN Err(st, "UndefinedProperty")
                         ELSE LET b == bind(st, super_class_method, object.v.ref)
                              IN  Ok(b.st, VFunction(b.f))

\* args.iter().map(evaluate).collect::<Result<Vec<_>>>()
EvaluateArgs(args, env, st, acc) ==
    IF args = <<>> THEN Ok(st, acc)
    ELSE Try(Evaluate(Head(args), env, st), LAMBDA x :
             EvaluateArgs(Tail(args), env, x.st, Append(acc, x.v)))

\* the scope of a call: a child of the closure that holds the arguments
CallScope(f, args, st) ==
    LET s1 == push_scope(save_env(st, f.closure))
        zip == 1..(IF Len(args) < Len(f.params) THEN Len(args) ELSE Len(f.params))
    IN  [s1 EXCEPT !.heap[s1.env].values =
            [p \in {f.params[i] : i \in zip} |->
                args[CHOOSE i \in zip :
                        /\ f.params[i] = p
                        /\ \A j \in zip : j > i => f.params[j] # p]]]

\* a call is refused only when arguments are missing
ArityMismatch_too_few(expected, args) == Len(args) < expected

\* args.len() != self.params.len(), args.len() != self.arity().unwrap()
ArityMismatch(expected, args) == Len(args) # expected

\* the error "Expected {} arguments but got {}."
ArityError(st, expected, args) ==
    Err(Log(st, [e |-> "arity", expected |-> expected, got |-> Len(args),
                 env |-> st.env, depth |-> Len(st.envs)]),
        "ArityMismatch")

\* Callable for FuncObject (interpreter/src/callable.rs)
FuncCall(f, args, st) ==
    IF ArityMismatch(Len(f.params), args) THEN ArityError(st, Len(f.params), args)
    ELSE IF Len(st.envs) >= MaxCallDepth THEN Err(st, "StackOverflow")
    ELSE
    Let(CallScope(f, args, st), LAMBDA s2 :
    Let(RunMany(f.body,
                Log(s2, [e |-> "enter", name |-> f.name, caller |-> st.env,
                         depth |-> Len(st.envs), closure |-> f.closure,
                         scope |-> s2.env, parent |-> s2.heap[s2.env].enclosing,
                         is_initializer |-> f.is_initializer])),
        LAMBDA body :
        LET function_result == IF body.r = "RetJump" THEN body.v ELSE VNil
            this == get_env(body.st.heap, body.st.env, "this", 1)
            s4 == reset_env(pop_scope(body.st))
            result == IF f.is_initializer THEN this.v ELSE function_result
        IN  IF body.r \notin {"Ok", "RetJump"} THEN body
            ELSE IF f.is_initializer /\ this.r # "Ok" THEN Err(body.st, this.r)
            ELSE IF s4.env = 0 THEN Err(s4, "Panic")
            ELSE Ok(Log(s4, [e |-> "exit", name |-> f.name, env |-> s4.env,
                             depth |-> Len(s4.envs), v |-> result,
                             caller |-> st.env, depth_before |-> Len(st.envs),
                             closure |-> f.closure, scope |-> s2.env,
                             parent |-> s2.heap[s2.env].enclosing,
                             is_initializer |-> f.is_initializer]),
                    result)))

\* Callable for ClassObject
ClassCall(c, args, st) ==
    IF ArityMismatch(ClassArity(c), args) THEN ArityError(st, ClassArity(c), args)
    ELSE LET instance == Len(st.insts) + 1
             s1 == Log([st EXCEPT !.insts =
                           Append(@, [class |-> c, fields |-> EmptyMap])],
                       [e |-> "new", ref |-> instance, class |-> c.name,
                        nargs |-> Len(args)])
             init_method == find_method(c, "init")
             b == bind(s1, init_method, instance)
         IN  IF init_method = None THEN Ok(s1, VInstance(instance))
             ELSE Try(FuncCall(b.f, args, b.st), LAMBDA x :
                      Ok(x.st, VInstance(instance)))

\* Callable for Object
Call(callee, args, st) ==
    CASE callee.t = "Function" -> FuncCall(callee.f, args, st)
      [] callee.t = "Class" -> ClassCall(callee.c, args, st)
      [] OTHER -> Err(st, "NotCallable")

\* the methods of a class declaration collected into the HashMap
MethodTable(methods, closure) ==
    LET RECURSIVE go(_, _)
        go(m, i) ==
            IF i > Len(methods) THEN m
            ELSE go(Insert(m, methods[i].name,
                           FuncObject(methods[i].name, methods[i].params,
                                      methods[i].body, closure,
                                      methods[i].name = "init")),
                    i + 1)
    IN  go(EmptyMap, 1)

\* Interpreter::run (src/interpreter.rs)
Run(stmt, st) ==
    CASE stmt.k = "Print" ->
            Try(Evaluate(stmt.e, st.env, st), LAMBDA o :
                Ok([o.st EXCEPT !.writer = Append(@, Display(o.st, o.v))], VNil))
      [] stmt.k = "Expr" ->
            Try(Evaluate(stmt.e, st.env, st), LAMBDA o : Ok(o.st, VNil))
      [] stmt.k = "VariableDecl" ->
            Try(Evaluate(IF stmt.definition = None THEN ENil ELSE stmt.definition,
                         st.env, st),
                LAMBDA value :
                Ok([value.st EXCEPT !.heap =
                       init_variable(@, value.st.env, stmt.name, value.v)],
                   VNil))
      [] stmt.k = "Block" ->
            Try(RunMany(stmt.stmts, push_scope(st)), LAMBDA b :
                Ok(pop_scope(b.st), VNil))
      [] stmt.k = "Conditional" ->
            Try(Evaluate(stmt.cond, st.env, st), LAMBDA cond :
                IF is_truth(cond.v) THEN Run(stmt.if_branch, cond.st)
                ELSE IF stmt.else_branch # None
                     THEN Run(stmt.else_branch, cond.st)
                     ELSE Ok(cond.st, VNil))
      [] stmt.k = "Loop" -> RunLoop(stmt, st, MaxLoopIter)
      [] stmt.k = "FunctionDecl" ->
            LET func == VFunction(FuncObject(stmt.name, stmt.params, stmt.body,
                                             st.env, FALSE))
            IN  Ok([st EXCEPT !.heap = init_variable(@, st.env, stmt.name, func)],
                   VNil)
      [] stmt.k = "Return" ->
            Try(Evaluate(stmt.e, st.env, st), LAMBDA value :
                [st |-> Log(value.st, [e |-> "return", v |-> value.v,
                                       depth |-> Len(value.st.envs)]),
                 r |-> "RetJump", v |-> value.v])
      [] stmt.k = "ClassDecl" ->
            Try(IF stmt.super_class # None
                THEN Evaluate(stmt.super_class, st.env, st)
                ELSE Ok(st, VNil),
                LAMBDA sc :
                LET has_super_class == stmt.super_class # None
                    pushed == push_scope(sc.st)
                    s1 == IF has_super_class
                          THEN [pushed EXCEPT !.heap =
                                   init_variable(@, pushed.env, "super", sc.v)]
                          ELSE sc.st
                    class == VClass(ClassObject(stmt.name,
                                        IF has_super_class THEN sc.v.c ELSE None,
                                        MethodTable(stmt.methods, s1.env)))
                    s2 == IF has_super_class THEN pop_scope(s1) ELSE s1
                IN  IF has_super_class /\ sc.v.t # "Class"
                    THEN Err(sc.st, "SuperclassMustBeClass")
                    ELSE Ok([s2 EXCEPT !.heap =
                                init_variable(@, s2.env, stmt.name, class)],
                            VNil))

\* the `loop` of Stmt::Loop, at most MaxLoopIter iterations
RunLoop(stmt, st, fuel) ==
    Try(Evaluate(stmt.cond, st.env, st), LAMBDA cond_val :
        IF ~is_truth(cond_val.v) THEN Ok(cond_val.st, VNil)
        ELSE IF fuel = 0 THEN Err(cond_val.st, "LoopBound")
        ELSE Try(Run(stmt.body, cond_val.st), LAMBDA b :
                 RunLoop(stmt, b.st, fuel - 1)))

\* Interpreter::run_many
RunMany(stmts, st) ==
    IF stmts = <<>> THEN Ok(st, VNil)
    ELSE Try(Run(Head(stmts), st), LAMBDA x : RunMany(Tail(stmts), x.st))

\* ------------------------------------------------------------------------
\* Programs.  A program is named by a descriptor [fam, kind, seq]; Source
\* gives its statements as the parser builds them.
\* ------------------------------------------------------------------------
MaxOps == 3
MaxNest == 2
MaxProps == 2
MaxArgs == 3

Desc(fam, kind, seq) == [fam |-> fam, kind |-> kind, seq |-> seq]

SeqsUpTo(S, n) == UNION {[1..m -> S] : m \in 0..n}

Id(name) == EIdent(name)
CallStmt(name, args) == SExpr(ECall(Id(name), args))

\* fun mk() { var i = 0; fun inc() { i = i + 1; print i; }
\*            fun get() { print i; } gg = get; return inc; }
\* var gg = nil; var ai = mk(); var ag = gg; var bi = mk(); var bg = gg;
\* then one call per element of seq: ai(), ag(), bi() or bg()
CounterOps == {"ai", "ag", "bi", "bg"}
CounterSource(seq) ==
    <<SVar("gg", ENil),
      SFun("mk", <<>>,
           <<SVar("i", EInt(0)),
             SFun("inc", <<>>,
                  <<SExpr(EAssign("i", EBinary("Add", Id("i"), EInt(1)))),
                    SPrint(Id("i"))>>),
             SFun("get", <<>>, <<SPrint(Id("i"))>>),
             SExpr(EAssign("gg", Id("get"))),
             SReturn(Id("inc"))>>),
      SVar("ai", ECall(Id("mk"), <<>>)),
      SVar("ag", Id("gg")),
      SVar("bi", ECall(Id("mk"), <<>>)),
      SVar("bg", Id("gg"))>>
    \o [j \in 1..Len(seq) |-> CallStmt(seq[j], <<>>)]

\* var a = "global";
\* { fun showA() { print a; }        (kind "assign": fun setA(v) { a = v; })
\*   showA();                        (setA("s1"); print a;)
\*   showA();                        (setA("s2"); print a;)
\*   print a; }
\* print a;
\* with `var a = "block";` put in the block before the first call (seq
\* <<"0">>), between the calls ("1"), after them ("2") or nowhere ("3").
\* Kinds "readb" and "assignb" put the whole program in one more block.
ScopeSource(kind, seq) ==
    LET at == seq[1]
        shadow(i) == IF at = i THEN <<SVar("a", EStr("block"))>> ELSE <<>>
        reads == kind \in {"read", "readb"}
        decl == IF reads THEN SFun("showA", <<>>, <<SPrint(Id("a"))>>)
                ELSE SFun("setA", <<"v">>, <<SExpr(EAssign("a", Id("v")))>>)
        use(v) == IF reads THEN <<CallStmt("showA", <<>>)>>
                  ELSE <<CallStmt("setA", <<EStr(v)>>), SPrint(Id("a"))>>
        body == <<SVar("a", EStr("global")),
                  SBlock(<<decl>> \o shadow("0") \o use("s1") \o shadow("1")
                         \o use("s2") \o shadow("2") \o <<SPrint(Id("a"))>>),
                  SPrint(Id("a"))>>
    IN  IF kind \in {"readb", "assignb"} THEN <<SBlock(body)>> ELSE body

\* kind "global": var a = a = 1; print a;
\* kind "block":  { var a = a = 1; print a; }
\* kind "shadow": var a = 0; { var a = a = 1; print a; } print a;
\* kind "later":  var a; var b = a = 1; print a;
\* kind "read":   var a = a;
SelfAssignSource(kind) ==
    LET decl == SVar("a", EAssign("a", EInt(1)))
    IN  CASE kind = "global" -> <<decl, SPrint(Id("a"))>>
          [] kind = "block" -> <<SBlock(<<decl, SPrint(Id("a"))>>)>>
          [] kind = "shadow" ->
                <<SVar("a", EInt(0)), SBlock(<<decl, SPrint(Id("a"))>>),
                  SPrint(Id("a"))>>
          [] kind = "later" ->
                <<SVar("a", None), SVar("b", EAssign("a", EInt(1))),
                  SPrint(Id("a"))>>
          [] kind = "read" -> <<SVar("a", Id("a"))>>

\* class A0 { x() { print "A0.x"; print this.tag; } }
\* class A < A0 { m() { print "A.m"; print this.tag; } }
\* class B < A { m() { print "B.m"; } x() { print "B.x"; }
\*               call() { super.<meth>(); } keep() { return super.<meth>; } }
\* class C < B { m() { print "C.m"; } x() { print "C.x"; } }
\* var o = <kind>(); o.tag = "t"; o.call(); var s = o.keep(); s(); print "next";
\* with kind "B" or "C" and meth = seq[1]
SuperSource(kind, seq) ==
    LET say(what) == <<SPrint(EStr(what))>>
        tag == <<SPrint(EGet(EThis, "tag"))>>
    IN  <<SClass("A0", None, <<FunctionDecl("x", <<>>, say("A0.x") \o tag)>>),
          SClass("A", Id("A0"), <<FunctionDecl("m", <<>>, say("A.m") \o tag)>>),
          SClass("B", Id("A"),
                 <<FunctionDecl("m", <<>>, say("B.m")),
                   FunctionDecl("x", <<>>, say("B.x")),
                   FunctionDecl("call", <<>>,
                        <<SExpr(ECall(ESuper(seq[1]), <<>>))>>),
                   FunctionDecl("keep", <<>>, <<SReturn(ESuper(seq[1]))>>)>>),
          SClass("C", Id("B"),
                 <<FunctionDecl("m", <<>>, say("C.m")),
                   FunctionDecl("x", <<>>, say("C.x"))>>),
          SVar("o", ECall(Id(kind), <<>>)),
          SExpr(ESet(Id("o"), "tag", EStr("t"))),
          SExpr(ECall(EGet(Id("o"), "call"), <<>>)),
          SVar("s", ECall(EGet(Id("o"), "keep"), <<>>)),
          CallStmt("s", <<>>),
          SPrint(EStr("next"))>>

\* class P { name() { return "P.name"; } other() { return this.f; } }
\* class Q < P { }          (kind "own": class Q < P { name() { return "Q.name"; } })
\* var o = Q(); o.f = "field";
\* then one statement per element of seq:
\*   "method"  print o.name();      "bound"   print o.other();
\*   "field"   print o.f;           "shadow"  o.name = "fld"; (then print o.name;)
\*   "read"    print o.name;        "undef"   print o.zz;
\*   "string"  print "str".name;    "class"   print Q.name;
PropOps == {"method", "bound", "field", "shadow", "read", "undef", "string", "class"}
PropStmt(op) ==
    CASE op = "method" -> SPrint(ECall(EGet(Id("o"), "name"), <<>>))
      [] op = "bound" -> SPrint(ECall(EGet(Id("o"), "other"), <<>>))
      [] op = "field" -> SPrint(EGet(Id("o"), "f"))
      [] op = "shadow" -> SExpr(ESet(Id("o"), "name", EStr("fld")))
      [] op = "read" -> SPrint(EGet(Id("o"), "name"))
      [] op = "undef" -> SPrint(EGet(Id("o"), "zz"))
      [] op = "string" -> SPrint(EGet(EStr("str"), "name"))
      [] op = "class" -> SPrint(EGet(Id("Q"), "name"))

PropSource(kind, seq) ==
    <<SClass("P", None,
             <<FunctionDecl("name", <<>>, <<SReturn(EStr("P.name"))>>),
               FunctionDecl("other", <<>>, <<SReturn(EGet(EThis, "f"))>>)>>),
      SClass("Q", Id("P"),
             IF kind = "own"
             THEN <<FunctionDecl("name", <<>>, <<SReturn(EStr("Q.name"))>>)>>
             ELSE <<>>),
      SVar("o", ECall(Id("Q"), <<>>)),
      SExpr(ESet(Id("o"), "f", EStr("field")))>>
    \o [j \in 1..Len(seq) |-> PropStmt(seq[j])]

\* class Base { init(a) { this.a = a; } }
\* class Own < Base { init(a, b) { this.a = a; this.b = b; } }
\* class Inh < Base { }
\* class Plain { }
\* var o = <kind>(seq...); var p = <kind>(seq...); p.z = "z"; print "next";
ConstructSource(kind, seq) ==
    LET args == [j \in 1..Len(seq) |-> EStr(seq[j])]
        set(f) == SExpr(ESet(EThis, f, Id(f)))
    IN  <<SClass("Base", None, <<FunctionDecl("init", <<"a">>, <<set("a")>>)>>),
          SClass("Own", Id("Base"),
                 <<FunctionDecl("init", <<"a", "b">>, <<set("a"), set("b")>>)>>),
          SClass("Inh", Id("Base"), <<>>),
          SClass("Plain", None, <<>>),
          SVar("o", ECall(Id(kind), args)),
          SVar("p", ECall(Id(kind), args)),
          SExpr(ESet(Id("p"), "z", EStr("z"))),
          SPrint(EStr("next"))>>

\* class E { init(n) { this.n = n; } speak() { print this.n; } }
\* var e1 = E("one"); var e2 = E("two"); var m1 = e1.speak; var m2 = e2.speak;
\* then one call per element of seq: "m1" m1(); "m2" m2();
\*   "d1" e1.speak(); "d2" e2.speak();
BindOps == {"m1", "m2", "d1", "d2"}
BindSource(seq) ==
    <<SClass("E", None,
             <<FunctionDecl("init", <<"n">>, <<SExpr(ESet(EThis, "n", Id("n")))>>),
               FunctionDecl("speak", <<>>, <<SPrint(EGet(EThis, "n"))>>)>>),
      SVar("e1", ECall(Id("E"), <<EStr("one")>>)),
      SVar("e2", ECall(Id("E"), <<EStr("two")>>)),
      SVar("m1", EGet(Id("e1"), "speak")),
      SVar("m2", EGet(Id("e2"), "speak"))>>
    \o [j \in 1..Len(seq) |->
           CASE seq[j] = "m1" -> CallStmt("m1", <<>>)
             [] seq[j] = "m2" -> CallStmt("m2", <<>>)
             [] seq[j] = "d1" -> SExpr(ECall(EGet(Id("e1"), "speak"), <<>>))
             [] seq[j] = "d2" -> SExpr(ECall(EGet(Id("e2"), "speak"), <<>>))]

\* kind "count" (test fn_count, started at 3):
\*   fun count(n) { while (n < 20) { if (n == 5) return n; print n; n = n + 1; } }
\*   print count(3);
\* kind "fib" (test fn_recursive_fib, to 3):
\*   fun fib(n) { if (n <= 1) return n; return fib(n - 2) + fib(n - 1); }
\*   for (var i = 0; i < 4; i = i + 1) { print fib(i); }
TestSource(kind) ==
    CASE kind = "count" ->
            <<SFun("count", <<"n">>,
                   <<SLoop(EBinary("Lt", Id("n"), EInt(20)),
                           SBlock(<<SIf(EBinary("Eq", Id("n"), EInt(5)),
                                        SReturn(Id("n")), None),
                                    SPrint(Id("n")),
                                    SExpr(EAssign("n", EBinary("Add", Id("n"),
                                                               EInt(1))))>>))>>),
              SPrint(ECall(Id("count"), <<EInt(3)>>))>>
      [] kind = "fib" ->
            <<SFun("fib", <<"n">>,
                   <<SIf(EBinary("Le", Id("n"), EInt(1)), SReturn(Id("n")), None),
                     SReturn(EBinary("Add",
                                ECall(Id("fib"), <<EBinary("Sub", Id("n"), EInt(2))>>),
                                ECall(Id("fib"), <<EBinary("Sub", Id("n"), EInt(1))>>)))>>),
              SBlock(<<SVar("i", EInt(0)),
                       SLoop(EBinary("Lt", Id("i"), EInt(4)),
                             SBlock(<<SBlock(<<SPrint(ECall(Id("fib"), <<Id("i")>>))>>),
                                      SExpr(EAssign("i", EBinary("Add", Id("i"),
                                                                 EInt(1))))>>))>>)>>

\* s wrapped in the statements named by nest, outermost first
RECURSIVE Wrap(_, _)
Wrap(nest, s) ==
    IF nest = <<>> THEN s
    ELSE LET inner == Wrap(Tail(nest), s)
         IN  CASE Head(nest) = "block" -> SBlock(<<inner>>)
               [] Head(nest) = "if" -> SIf(EBool(TRUE), inner, None)
               [] Head(nest) = "while" -> SLoop(EBool(TRUE), inner)
               [] Head(nest) = "for" -> SFor(EBool(TRUE), inner)

Wrappers == {"block", "if", "while", "for"}

\* kind "fun":    fun f(n) { W(return n + 1;) print "after"; }
\*                { var x = 10; print f(x); print x; } print "next";
\* kind "method": class K { m(n) { W(return n + 1;) print "after"; } }
\*                { var k = K(); print k.m(10); } print "next";
\* kind "init":   class Foo { init() { this.v = 1; W(return;) print "after"; } }
\*                var foo = Foo(); print foo.v; print foo.init(); print "next";
ReturnSource(kind, nest) ==
    CASE kind = "fun" ->
            <<SFun("f", <<"n">>,
                   <<Wrap(nest, SReturn(EBinary("Add", Id("n"), EInt(1)))),
                     SPrint(EStr("after"))>>),
              SBlock(<<SVar("x", EInt(10)),
                       SPrint(ECall(Id("f"), <<Id("x")>>)),
                       SPrint(Id("x"))>>),
              SPrint(EStr("next"))>>
      [] kind = "method" ->
            <<SClass("K", None,
                     <<FunctionDecl("m", <<"n">>,
                          <<Wrap(nest, SReturn(EBinary("Add", Id("n"), EInt(1)))),
                            SPrint(EStr("after"))>>)>>),
              SBlock(<<SVar("k", ECall(Id("K"), <<>>)),
                       SPrint(ECall(EGet(Id("k"), "m"), <<EInt(10)>>))>>),
              SPrint(EStr("next"))>>
      [] kind = "init" ->
            <<SClass("Foo", None,
                     <<FunctionDecl("init", <<>>,
                          <<SExpr(ESet(EThis, "v", EInt(1))),
                            Wrap(nest, SReturn(ENil)),
                            SPrint(EStr("after"))>>)>>),
              SVar("foo", ECall(Id("Foo"), <<>>)),
              SPrint(EGet(Id("foo"), "v")),
              SPrint(ECall(EGet(Id("foo"), "init"), <<>>)),
              SPrint(EStr("next"))>>

\* var a = "outer"; { <seq> } print a;      (kind "local": all of it in a block)
\* where the j-th element of seq is `var a = "inner";` ("decl"),
\* `a = "s<j>";` ("assign") or `print a;` ("print")
\* (tests new_scope and multi_scope)
BlockOps == {"decl", "assign", "print"}
BlockStmt(op, j) ==
    CASE op = "decl" -> SVar("a", EStr("inner"))
      [] op = "assign" -> SExpr(EAssign("a", EStr("s" \o ToString(j))))
      [] op = "print" -> SPrint(Id("a"))
BlockSource(kind, seq) ==
    LET stmts == <<SVar("a", EStr("outer")),
                   SBlock([j \in 1..Len(seq) |-> BlockStmt(seq[j], j)]),
                   SPrint(Id("a"))>>
    IN  IF kind = "local" THEN <<SBlock(stmts)>> ELSE stmts

\* print a / b;        (kind "var": var a = <a>; var b = <b>; print a / b;)
\* for the operands a, b named by seq
DivOperands == {"1", "-3", "0", "2", "1.5", "-2.5", "0.5", "0.0", "-0.0"}
DivOperand(name) ==
    CASE name = "1" -> EInt(1)
      [] name = "-3" -> EUnary("Minus", EInt(3))
      [] name = "0" -> EInt(0)
      [] name = "2" -> EInt(2)
      [] name = "1.5" -> EFloat(3, 2)
      [] name = "-2.5" -> EUnary("Minus", EFloat(5, 2))
      [] name = "0.5" -> EFloat(1, 2)
      [] name = "0.0" -> EFloat(0, 1)
      [] name = "-0.0" -> EUnary("Minus", EFloat(0, 1))
DivSource(kind, seq) ==
    IF kind = "var"
    THEN <<SVar("a", DivOperand(seq[1])), SVar("b", DivOperand(seq[2])),
           SPrint(EBinary("Div", Id("a"), Id("b")))>>
    ELSE <<SPrint(EBinary("Div", DivOperand(seq[1]), DivOperand(seq[2])))>>

\* fun f(a, b) { print "body"; }
\* class K { init(a, b) { print "init"; } m(a) { print "method"; } }
\* var k = K("x", "y");
\* <call>; print "next";
\* where <call> passes one "x" per element of seq to f ("fun"), to K
\* ("class"), to k.m ("method"), to f from inside a block ("block") or to f
\* from inside a function g that is then called ("nested")
ArityKinds == {"fun", "class", "method", "block", "nested"}
AritySource(kind, seq) ==
    LET args == [j \in 1..Len(seq) |-> EStr(seq[j])]
        call == CASE kind = "class" -> SExpr(ECall(Id("K"), args))
                  [] kind = "method" -> SExpr(ECall(EGet(Id("k"), "m"), args))
                  [] OTHER -> CallStmt("f", args)
    IN  <<SFun("f", <<"a", "b">>, <<SPrint(EStr("body"))>>),
          SClass("K", None,
                 <<FunctionDecl("init", <<"a", "b">>, <<SPrint(EStr("init"))>>),
                   FunctionDecl("m", <<"a">>, <<SPrint(EStr("method"))>>)>>),
          SVar("k", ECall(Id("K"), <<EStr("x"), EStr("y")>>))>>
        \o (CASE kind = "block" -> <<SBlock(<<call>>)>>
              [] kind = "nested" -> <<SFun("g", <<>>, <<call>>), CallStmt("g", <<>>)>>
              [] OTHER -> <<call>>)
        \o <<SPrint(EStr("next"))>>

\* var n = 0; fun side(v) { n = n + 1; return v; }
\* print <a> and side(<b>);  (kind "or": print <a> or side(<b>);)   print n;
\* for the operands a, b named by seq (tests or_short_circuit,
\* and_short_circuit)
LogicOperands == {"nil", "false", "true", "0", "empty"}
LogicOperand(name) ==
    CASE name = "nil" -> ENil
      [] name = "false" -> EBool(FALSE)
      [] name = "true" -> EBool(TRUE)
      [] name = "0" -> EInt(0)
      [] name = "empty" -> EStr("")
LogicSource(kind, seq) ==
    <<SVar("n", EInt(0)),
      SFun("side", <<"v">>,
           <<SExpr(EAssign("n", EBinary("Add", Id("n"), EInt(1)))),
             SReturn(Id("v"))>>),
      SPrint(ELogical(IF kind = "and" THEN "And" ELSE "Or",
                      LogicOperand(seq[1]),
                      ECall(Id("side"), <<LogicOperand(seq[2])>>))),
      SPrint(Id("n"))>>

\* class A {} class B {} fun f() {}
\* var a = A(); var b = A(); var c = B();
\* <setup>  print <x> == <y>; print <x> != <y>;
\* for the operands x, y named by seq; the setup of kind
\*   "self"   is a.me = a; b.me = b;
\*   "cross"  is a.me = b; b.me = a;
\*   "differ" is a.me = a; b.me = b; a.x = 1; b.x = 2;
\*   "nested" is a.f = c; b.f = c;
EqOperands == {"nil", "true", "0", "0.0", "str", "f", "A", "a", "b", "c"}
EqOperand(name) ==
    CASE name = "nil" -> ENil
      [] name = "true" -> EBool(TRUE)
      [] name = "0" -> EInt(0)
      [] name = "0.0" -> EFloat(0, 1)
      [] name = "str" -> EStr("str")
      [] OTHER -> Id(name)
EqSetup(kind) ==
    LET set(o, p, e) == SExpr(ESet(Id(o), p, e))
    IN  CASE kind = "self" -> <<set("a", "me", Id("a")), set("b", "me", Id("b"))>>
          [] kind = "cross" -> <<set("a", "me", Id("b")), set("b", "me", Id("a"))>>
          [] kind = "differ" ->
                <<set("a", "me", Id("a")), set("b", "me", Id("b")),
                  set("a", "x", EInt(1)), set("b", "x", EInt(2))>>
          [] kind = "nested" -> <<set("a", "f", Id("c")), set("b", "f", Id("c"))>>
          [] OTHER -> <<>>
EqSource(kind, seq) ==
    <<SClass("A", None, <<>>), SClass("B", None, <<>>), SFun("f", <<>>, <<>>),
      SVar("a", ECall(Id("A"), <<>>)), SVar("b", ECall(Id("A"), <<>>)),
      SVar("c", ECall(Id("B"), <<>>))>>
    \o EqSetup(kind)
    \o <<SPrint(EBinary("Eq", EqOperand(seq[1]), EqOperand(seq[2]))),
         SPrint(EBinary("Ne", EqOperand(seq[1]), EqOperand(seq[2])))>>

\* a reference, inside a function body, to a global
\*   "before": fun g() { return 1; } fun f() { return g(); } print f();
\*   "fun":    fun f() { return g(); } fun g() { return 1; } print f();
\*   "var":    fun f() { return v; } var v = 1; print f();
\*   "never":  fun f() { return u; } print 1;
ForwardKinds == {"before", "fun", "var", "never"}
ForwardSource(kind) ==
    LET g == SFun("g", <<>>, <<SReturn(EInt(1))>>)
        f(e) == SFun("f", <<>>, <<SReturn(e)>>)
        call == SPrint(ECall(Id("f"), <<>>))
    IN  CASE kind = "before" -> <<g, f(ECall(Id("g"), <<>>)), call>>
          [] kind = "fun" -> <<f(ECall(Id("g"), <<>>)), g, call>>
          [] kind = "var" -> <<f(Id("v")), SVar("v", EInt(1)), call>>
          [] kind = "never" -> <<f(Id("u")), SPrint(EInt(1))>>

\* two declarations of the name a, the first by seq[1] ("var", "fun",
\* "class" or "param"), the second by seq[2] ("var", "fun" or "class"):
\*   "same":   { <first> <second> }       fun f(a) { <second> }
\*   "nested": { <first> { <second> } }   fun f(a) { { <second> } }
RedeclFirst == {"var", "fun", "class", "param"}
RedeclSecond == {"var", "fun", "class"}
RedeclDecl(how) ==
    CASE how = "var" -> SVar("a", EInt(1))
      [] how = "fun" -> SFun("a", <<>>, <<>>)
      [] how = "class" -> SClass("a", None, <<>>)
RedeclSource(kind, seq) ==
    LET second == IF kind = "nested" THEN SBlock(<<RedeclDecl(seq[2])>>)
                  ELSE RedeclDecl(seq[2])
    IN  IF seq[1] = "param" THEN <<SFun("f", <<"a">>, <<second>>)>>
        ELSE <<SBlock(<<RedeclDecl(seq[1]), second>>)>>

\* Parser::return_stmt: `return;` (no expression before the semicolon,
\* None here) gives the same statement as `return nil;`
return_stmt(expression) ==
    LET value == IF expression # None THEN expression ELSE ENil
    IN  SReturn(value)

\* class Foo { init() { <return> } } var foo = Foo(); print "done";
\* with the return statement named by seq[1] directly in init ("init"),
\* in a function declared in init ("fun": fun h() { <return> }) or in a
\* lambda ("lambda": var h = fun () { <return> };)
InitReturns == {"bare", "nil", "1", "str", "this"}
InitReturn(what) ==
    return_stmt(CASE what = "bare" -> None
                  [] what = "nil" -> ENil
                  [] what = "1" -> EInt(1)
                  [] what = "str" -> EStr("s")
                  [] what = "this" -> EThis)
InitReturnSource(kind, seq) ==
    LET ret == InitReturn(seq[1])
        body == CASE kind = "init" -> <<ret>>
                  [] kind = "fun" -> <<SFun("h", <<>>, <<ret>>)>>
                  [] kind = "lambda" -> <<SVar("h", ELambda(<<>>, <<ret>>))>>
    IN  <<SClass("Foo", None, <<FunctionDecl("init", <<>>, body)>>),
          SVar("foo", ECall(Id("Foo"), <<>>)),
          SPrint(EStr("done"))>>

\* class A { m() { print "A.m"; } }
\*   "with":   class B < A { test() { super.m(); } }  B().test();
\*   "plain":  class N { test() { super.m(); } }  N().test();
\*   "nested": class B < A { make() {
\*                 class Inner { test() { super.m(); } } return Inner(); } }
\*             B().make().test();
\*   "nested_plain": the same with `class B` in place of `class B < A`
NoSuperKinds == {"with", "plain", "nested", "nested_plain"}
NoSuperSource(kind) ==
    LET test == FunctionDecl("test", <<>>, <<SExpr(ECall(ESuper("m"), <<>>))>>)
        make == FunctionDecl("make", <<>>,
                    <<SClass("Inner", None, <<test>>),
                      SReturn(ECall(Id("Inner"), <<>>))>>)
        new(c) == ECall(Id(c), <<>>)
        run(o) == SExpr(ECall(EGet(o, "test"), <<>>))
    IN  <<SClass("A", None, <<FunctionDecl("m", <<>>, <<SPrint(EStr("A.m"))>>)>>)>>
        \o (CASE kind = "with" -> <<SClass("B", Id("A"), <<test>>), run(new("B"))>>
              [] kind = "plain" -> <<SClass("N", None, <<test>>), run(new("N"))>>
              [] kind = "nested" ->
                    <<SClass("B", Id("A"), <<make>>),
                      run(ECall(EGet(new("B"), "make"), <<>>))>>
              [] kind = "nested_plain" ->
                    <<SClass("B", None, <<make>>),
                      run(ECall(EGet(new("B"), "make"), <<>>))>>)

\* a `return 1;` at the place named by kind; outside every function:
\*   "direct":      return 1;
\*   "block":       { return 1; }
\*   "if":          if (true) return 1;
\*   "else":        if (false) print 0; else return 1;
\*   "while":       while (false) return 1;
\*   "after_fun":   fun f() { return 2; } return 1;
\*   "after_lambda": var h = fun () { return 2; }; return 1;
\*   "after_class": class K { m() { return 2; } } return 1;
\* and inside one:
\*   "fun":         fun f() { return 1; } print f();
\*   "fun_block":   fun f() { { if (true) return 1; } } print f();
\*   "after_inner": fun f() { fun g() { return 2; } return 1; } print f();
\*   "lambda":      var h = fun () { return 1; }; print h();
\*   "method":      class K { m() { return 1; } } print K().m();
TopReturnOutside ==
    {"direct", "block", "if", "else", "while", "after_fun", "after_lambda",
     "after_class"}
TopReturnInside == {"fun", "fun_block", "after_inner", "lambda", "method"}
TopReturnSource(kind) ==
    LET ret(n) == SReturn(EInt(n))
        callf == SPrint(ECall(Id("f"), <<>>))
    IN  CASE kind = "direct" -> <<ret(1)>>
          [] kind = "block" -> <<SBlock(<<ret(1)>>)>>
          [] kind = "if" -> <<SIf(EBool(TRUE), ret(1), None)>>
          [] kind = "else" -> <<SIf(EBool(FALSE), SPrint(EInt(0)), ret(1))>>
          [] kind = "while" -> <<SLoop(EBool(FALSE), ret(1))>>
          [] kind = "after_fun" -> <<SFun("f", <<>>, <<ret(2)>>), ret(1)>>
          [] kind = "after_lambda" ->
                <<SVar("h", ELambda(<<>>, <<ret(2)>>)), ret(1)>>
          [] kind = "after_class" ->
                <<SClass("K", None, <<FunctionDecl("m", <<>>, <<ret(2)>>)>>),
                  ret(1)>>
          [] kind = "fun" -> <<SFun("f", <<>>, <<ret(1)>>), callf>>
          [] kind = "fun_block" ->
                <<SFun("f", <<>>, <<SBlock(<<SIf(EBool(TRUE), ret(1), None)>>)>>),
                  callf>>
          [] kind = "after_inner" ->
                <<SFun("f", <<>>, <<SFun("g", <<>>, <<ret(2)>>), ret(1)>>), callf>>
          [] kind = "lambda" ->
                <<SVar("h", ELambda(<<>>, <<ret(1)>>)),
                  SPrint(ECall(Id("h"), <<>>))>>
          [] kind = "method" ->
                <<SClass("K", None, <<FunctionDecl("m", <<>>, <<ret(1)>>)>>),
                  SPrint(ECall(EGet(ECall(Id("K"), <<>>), "m"), <<>>))>>

\* `var x = e;` where e reads the x being declared:
\*   "global":        var x = x;
\*   "block":         { var x = x; }
\*   "shadow":        var x = 0; { var x = x; }
\*   "expr":          { var x = 1 + x; }
\*   "lambda":        { var x = fun () { return x; }; }
\*   "lambda_shadow": var x = 0; { var x = fun () { return x; }; }
\*   "lambda_block":  { var x = fun () { { print x; } }; }
\* and where it does not:
\*   "other":         var y = 0; { var x = y; print x; }
\*   "param":         { var x = fun (x) { return x; }; print x(1); }
OwnInitReads ==
    {"global", "block", "shadow", "expr", "lambda", "lambda_shadow",
     "lambda_block"}
OwnInitOthers == {"other", "param"}
OwnInitSource(kind) ==
    LET x == Id("x")
        outer == SVar("x", EInt(0))
    IN  CASE kind = "global" -> <<SVar("x", x)>>
          [] kind = "block" -> <<SBlock(<<SVar("x", x)>>)>>
          [] kind = "shadow" -> <<outer, SBlock(<<SVar("x", x)>>)>>
          [] kind = "expr" ->
                <<SBlock(<<SVar("x", EBinary("Add", EInt(1), x))>>)>>
          [] kind = "lambda" ->
                <<SBlock(<<SVar("x", ELambda(<<>>, <<SReturn(x)>>))>>)>>
          [] kind = "lambda_shadow" ->
                <<outer, SBlock(<<SVar("x", ELambda(<<>>, <<SReturn(x)>>))>>)>>
          [] kind = "lambda_block" ->
                <<SBlock(<<SVar("x", ELambda(<<>>, <<SBlock(<<SPrint(x)>>)>>))>>)>>
          [] kind = "other" ->
                <<SVar("y", EInt(0)), SBlock(<<SVar("x", Id("y")), SPrint(x)>>)>>
          [] kind = "param" ->
                <<SBlock(<<SVar("x", ELambda(<<"x">>, <<SReturn(x)>>)),
                           SPrint(ECall(x, <<EInt(1)>>))>>)>>

\* a variable declared without an initializer, an assignment of 1 to it that
\* runs or does not run, and a read:
\*   "plain":    var a; print a;
\*   "assigned": var a; a = 1; print a;
\*   "taken":    var a; if (true) a = 1; print a;
\*   "skipped":  var a; if (false) a = 1; print a;
\*   "loop":     var a; while (false) a = 1; print a;
\*   "uncalled": var a; fun set() { a = 1; } print a;
\*   "called":   var a; fun set() { a = 1; } set(); print a;
UninitAssigned == {"assigned", "taken", "called"}
UninitUnassigned == {"skipped", "loop", "uncalled"}
UninitSource(kind) ==
    LET assign == SExpr(EAssign("a", EInt(1)))
        set == SFun("set", <<>>, <<assign>>)
        how == CASE kind = "plain" -> <<>>
                 [] kind = "assigned" -> <<assign>>
                 [] kind = "taken" -> <<SIf(EBool(TRUE), assign, None)>>
                 [] kind = "skipped" -> <<SIf(EBool(FALSE), assign, None)>>
                 [] kind = "loop" -> <<SLoop(EBool(FALSE), assign)>>
                 [] kind = "uncalled" -> <<set>>
                 [] kind = "called" -> <<set, CallStmt("set", <<>>)>>
    IN  <<SVar("a", None)>> \o how \o <<SPrint(Id("a"))>>

\* fun show(v) { print v; return v; }
\* fun mk(v) { print v; fun inner(a, b) { print "body"; } return inner; }
\* <call>;
\* where <call> is
\*   "call":        mk("callee")(show("a1"), show("a2"))
\*   "arity":       mk("callee")(show("a1"))
\*   "notcallable": show("callee")(show("a1"), show("a2"))
\*   "args":        inner2(show("a1"), show("a2")), inner2 a function of two
\*                  parameters named by an identifier
OrderKinds == {"call", "arity", "notcallable", "args"}
OrderSource(kind) ==
    LET show(s) == ECall(Id("show"), <<EStr(s)>>)
        inner(name) == SFun(name, <<"a", "b">>, <<SPrint(EStr("body"))>>)
        mk == ECall(Id("mk"), <<EStr("callee")>>)
        call == CASE kind = "call" -> ECall(mk, <<show("a1"), show("a2")>>)
                  [] kind = "arity" -> ECall(mk, <<show("a1")>>)
                  [] kind = "notcallable" ->
                        ECall(show("callee"), <<show("a1"), show("a2")>>)
                  [] kind = "args" ->
                        ECall(Id("inner2"), <<show("a1"), show("a2")>>)
    IN  <<SFun("show", <<"v">>, <<SPrint(Id("v")), SReturn(Id("v"))>>),
          SFun("mk", <<"v">>,
               <<SPrint(Id("v")), inner("inner"), SReturn(Id("inner"))>>),
          inner("inner2"),
          SExpr(call)>>

\* var a = <x>; var b = <y>; print a <op> b;    (kind "Neg": print -a;)
\* for the operands named by seq; the minimum Int has no literal and is
\* written -<maximum> - 1
IntKinds == {"Add", "Sub", "Mul", "Div", "Neg"}
IntOperands == {"min", "-2", "-1", "0", "1", "2", "max"}
IntOperand(name) ==
    CASE name = "min" -> EBinary("Sub", EUnary("Minus", EInt(IntMax)), EInt(1))
      [] name = "-2" -> EUnary("Minus", EInt(2))
      [] name = "-1" -> EUnary("Minus", EInt(1))
      [] name = "0" -> EInt(0)
      [] name = "1" -> EInt(1)
      [] name = "2" -> EInt(2)
      [] name = "max" -> EInt(IntMax)
IntSource(kind, seq) ==
    IF kind = "Neg"
    THEN <<SVar("a", IntOperand(seq[1])), SPrint(EUnary("Minus", Id("a")))>>
    ELSE <<SVar("a", IntOperand(seq[1])), SVar("b", IntOperand(seq[2])),
           SPrint(EBinary(kind, Id("a"), Id("b")))>>

Descriptors ==
    {Desc("counter", "", seq) : seq \in SeqsUpTo(CounterOps, MaxOps)}
    \cup {Desc("scope", kind, <<at>>) :
            kind \in {"read", "assign", "readb", "assignb"},
            at \in {"0", "1", "2", "3"}}
    \cup {Desc("return", kind, nest) :
            kind \in {"fun", "method", "init"}, nest \in SeqsUpTo(Wrappers, MaxNest)}
    \cup {Desc("selfassign", kind, <<>>) :
            kind \in {"global", "block", "shadow", "later", "read"}}
    \cup {Desc("super", kind, <<meth>>) :
            kind \in {"B", "C"}, meth \in {"m", "x", "zz"}}
    \cup {Desc("prop", kind, seq) :
            kind \in {"own", "inherit"}, seq \in SeqsUpTo(PropOps, MaxProps)}
    \cup {Desc("construct", kind, seq) :
            kind \in {"Base", "Own", "Inh", "Plain"},
            seq \in SeqsUpTo({"x"}, MaxArgs)}
    \cup {Desc("bind", "", seq) : seq \in SeqsUpTo(BindOps, MaxOps)}
    \cup {Desc("test", kind, <<>>) : kind \in {"count", "fib"}}
    \cup {Desc("div", kind, <<a, b>>) :
            kind \in {"lit", "var"}, a \in DivOperands, b \in DivOperands}
    \cup {Desc("arity", kind, seq) :
            kind \in ArityKinds, seq \in SeqsUpTo({"x"}, MaxArgs)}
    \cup {Desc("logic", kind, <<a, b>>) :
            kind \in {"and", "or"}, a \in LogicOperands, b \in LogicOperands}
    \cup {Desc("eq", "plain", <<x, y>>) : x \in EqOperands, y \in EqOperands}
    \cup {Desc("eq", kind, <<x, y>>) :
            kind \in {"self", "cross", "differ", "nested"},
            x \in {"a", "b"}, y \in {"a", "b"}}
    \cup {Desc("forward", kind, <<>>) : kind \in ForwardKinds}
    \cup {Desc("redecl", kind, <<first, second>>) :
            kind \in {"same", "nested"},
            first \in RedeclFirst, second \in RedeclSecond}
    \cup {Desc("initret", kind, <<what>>) :
            kind \in {"init", "fun", "lambda"}, what \in InitReturns}
    \cup {Desc("nosuper", kind, <<>>) : kind \in NoSuperKinds}
    \cup {Desc("topreturn", kind, <<>>) : kind \in TopReturnOutside \cup TopReturnInside}
    \cup {Desc("owninit", kind, <<>>) : kind \in OwnInitReads \cup OwnInitOthers}
    \cup {Desc("uninit", kind, <<>>) :
            kind \in {"plain"} \cup UninitAssigned \cup UninitUnassigned}
    \cup {Desc("order", kind, <<>>) : kind \in OrderKinds}
    \cup {Desc("int", kind, seq) :
            kind \in IntKinds \ {"Neg"}, seq \in [1..2 -> IntOperands]}
    \cup {Desc("int", "Neg", seq) : seq \in [1..1 -> IntOperands]}
    \cup {Desc("block", kind, seq) :
            kind \in {"global", "local"}, seq \in SeqsUpTo(BlockOps, MaxOps)}

Source(d) ==
    CASE d.fam = "counter" -> CounterSource(d.seq)
      [] d.fam = "scope" -> ScopeSource(d.kind, d.seq)
      [] d.fam = "return" -> ReturnSource(d.kind, d.seq)
      [] d.fam = "selfassign" -> SelfAssignSource(d.kind)
      [] d.fam = "super" -> SuperSource(d.kind, d.seq)
      [] d.fam = "prop" -> PropSource(d.kind, d.seq)
      [] d.fam = "construct" -> ConstructSource(d.kind, d.seq)
      [] d.fam = "bind" -> BindSource(d.seq)
      [] d.fam = "test" -> TestSource(d.kind)
      [] d.fam = "block" -> BlockSource(d.kind, d.seq)
      [] d.fam = "int" -> IntSource(d.kind, d.seq)
      [] d.fam = "order" -> OrderSource(d.kind)
      [] d.fam = "uninit" -> UninitSource(d.kind)
      [] d.fam = "owninit" -> OwnInitSource(d.kind)
      [] d.fam = "topreturn" -> TopReturnSource(d.kind)
      [] d.fam = "nosuper" -> NoSuperSource(d.kind)
      [] d.fam = "initret" -> InitReturnSource(d.kind, d.seq)
      [] d.fam = "redecl" -> RedeclSource(d.kind, d.seq)
      [] d.fam = "forward" -> ForwardSource(d.kind)
      [] d.fam = "eq" -> EqSource(d.kind, d.seq)
      [] d.fam = "logic" -> LogicSource(d.kind, d.seq)
      [] d.fam = "arity" -> AritySource(d.kind, d.seq)
      [] d.fam = "div" -> DivSource(d.kind, d.seq)

Program(d) == Number(Source(d))

\* ------------------------------------------------------------------------
\* The run of one program on a fresh interpreter: runfile
\* (interpreter/src/lib.rs) resolves it, then run_many runs its statements.
\* ------------------------------------------------------------------------
VARIABLES prog, phase, pc, result, resolver, locals, env, envs, heap, insts,
          writer, log, hasher, overflow_checks

vars ==
    <<prog, phase, pc, result, resolver, locals, env, envs, heap, insts,
      writer, log, hasher, overflow_checks>>

State ==
    [env |-> env, envs |-> envs, locals |-> locals, heap |-> heap,
     insts |-> insts, writer |-> writer, log |-> log, hasher |-> hasher,
     overflow_checks |-> overflow_checks]

\* the iteration orders the RandomState of a run's HashMaps can give
Hashers == {"mismatch_first", "recursion_first"}

\* the overflow-checks setting of the profile the interpreter was built
\* with: on in a debug build, off in a release build.  Both are drawn for
\* the int programs, which compute with the extreme Ints; no other program
\* leaves the range of Int, so the setting cannot show in its run.
Profiles(d) == IF d.fam = "int" THEN BOOLEAN ELSE {TRUE}

\* Interpreter::new, Resolver::new
Init ==
    /\ prog \in Descriptors
    /\ phase = "parsed"
    /\ pc = 1
    /\ result = "None"
    /\ resolver = NewResolver
    /\ locals = EmptyMap
    /\ env = 1
    /\ envs = <<>>
    /\ heap = <<EnvInner(0)>>
    /\ insts = <<>>
    /\ writer = <<>>
    /\ log = <<>>
    /\ hasher \in Hashers
    /\ overflow_checks \in Profiles(prog)

\* Resolver::new().resolve(&stmts, interpreter)
Resolve ==
    /\ phase = "parsed"
    /\ LET rs == resolve([NewResolver EXCEPT !.locals = locals], Program(prog))
       IN  /\ locals' = rs.locals
           /\ resolver' = [rs EXCEPT !.err = "Ok", !.locals = EmptyMap]
           /\ phase' = IF rs.err = "Ok" THEN "resolved" ELSE "rejected"
           /\ result' = IF rs.err = "Ok" THEN result ELSE rs.err
    /\ UNCHANGED <<prog, pc, env, envs, heap, insts, writer, log, hasher,
                   overflow_checks>>

\* one iteration of run_many over the program's statements
RunStmt ==
    /\ phase = "resolved"
    /\ pc <= Len(Program(prog))
    /\ \E x \in {Run(Program(prog)[pc], State)} :
          /\ env' = x.st.env
          /\ envs' = x.st.envs
          /\ heap' = x.st.heap
          /\ insts' = x.st.insts
          /\ writer' = x.st.writer
          /\ log' = x.st.log
          /\ IF x.r = "Ok"
             THEN /\ pc' = pc + 1
                  /\ UNCHANGED <<phase, result>>
             ELSE /\ phase' = "done"
                  /\ result' = x.r
                  /\ pc' = pc
    /\ UNCHANGED <<prog, resolver, locals, hasher,
                   overflow_checks>>

\* run_many returns Ok(())
Finish ==
    /\ phase = "resolved"
    /\ pc > Len(Program(prog))
    /\ phase' = "done"
    /\ result' = "Ok"
    /\ UNCHANGED <<prog, pc, resolver, locals, env, envs, heap, insts, writer,
                   log, hasher,
                   overflow_checks>>

Next == Resolve \/ RunStmt \/ Finish

Spec == Init /\ [][Next]_vars

\* ------------------------------------------------------------------------
\* get_env and assign_env on their own: a chain of up to MaxScopes
\* environments, each of which may hold the name "a", a scope of the chain
\* to start from (env) and a distance (pc).
\* ------------------------------------------------------------------------
MaxScopes == 3

EnvBindings(i) == {EmptyMap, "a" :> VStr("v" \o ToString(i)), "a" :> None}

EnvChains ==
    UNION {{h \in [1..n -> [values : UNION {EnvBindings(i) : i \in 1..n},
                            enclosing : 0..(n - 1)]] :
               \A i \in 1..n : /\ h[i].enclosing = i - 1
                               /\ h[i].values \in EnvBindings(i)} :
           n \in 1..MaxScopes}

EnvInit ==
    /\ prog \in {Desc("env", kind, <<>>) : kind \in {"get", "assign"}}
    /\ heap \in EnvChains
    /\ env \in 1..Len(heap)
    /\ pc \in 0..MaxScopes
    /\ phase = "parsed"
    /\ result = "None"
    /\ resolver = NewResolver
    /\ locals = EmptyMap
    /\ envs = <<>>
    /\ insts = <<>>
    /\ writer = <<>>
    /\ log = <<>>
    /\ hasher = "mismatch_first"
    /\ overflow_checks = TRUE

\* get_env(env, "a", pc)
EnvGet ==
    /\ phase = "parsed"
    /\ prog.kind = "get"
    /\ \E x \in {get_env(heap, env, "a", pc)} :
          /\ result' = x.r
          /\ writer' = IF x.r = "Ok" THEN <<x.v.s>> ELSE writer
    /\ phase' = "done"
    /\ UNCHANGED <<prog, pc, resolver, locals, env, envs, heap, insts, log,
                   hasher,
                   overflow_checks>>

\* assign_env(env, "a", pc, "new")
EnvAssign ==
    /\ phase = "parsed"
    /\ prog.kind = "assign"
    /\ \E x \in {assign_env(heap, env, "a", pc, VStr("new"))} :
          /\ result' = x.r
          /\ heap' = x.heap
    /\ phase' = "done"
    /\ UNCHANGED <<prog, pc, resolver, locals, env, envs, insts, writer, log,
                   hasher,
                   overflow_checks>>

EnvNext == EnvGet \/ EnvAssign

EnvSpec == EnvInit /\ [][EnvNext]_vars

\* ------------------------------------------------------------------------
\* The prompt: prompt (interpreter/src/lib.rs) makes one Interpreter and
\* one Resolver and hands every line it reads to runline with both.
\* ------------------------------------------------------------------------
MaxLines == 3

ReplLines ==
    {"var_a", "print_a", "var_a_fail", "block_fail", "call_fail",
     "return_top", "fun_fail", "var_b"}

\* the statements the parser builds for one line
LineSource(line) ==
    CASE line = "var_a" -> <<SVar("a", EInt(1))>>
      [] line = "print_a" -> <<SPrint(Id("a"))>>
      \* var a = nil - 1;
      [] line = "var_a_fail" -> <<SVar("a", EBinary("Sub", ENil, EInt(1)))>>
      \* { var t = 1; print t - nil; }
      [] line = "block_fail" ->
            <<SBlock(<<SVar("t", EInt(1)),
                       SPrint(EBinary("Sub", Id("t"), ENil))>>)>>
      \* fun f() { print nil - 1; } f();
      [] line = "call_fail" ->
            <<SFun("f", <<>>, <<SPrint(EBinary("Sub", ENil, EInt(1)))>>),
              CallStmt("f", <<>>)>>
      \* return 1;
      [] line = "return_top" -> <<SReturn(EInt(1))>>
      \* print 7; fun g() { print zz; }
      [] line = "fun_fail" ->
            <<SPrint(EInt(7)), SFun("g", <<>>, <<SPrint(Id("zz"))>>)>>
      \* var b = 2; print b;
      [] line = "var_b" -> <<SVar("b", EInt(2)), SPrint(Id("b"))>>

ReplSessions ==
    {Desc("repl", "", seq) : seq \in SeqsUpTo(ReplLines, MaxLines) \ {<<>>}}

\* the first tag the identifiers of line k of the session get: the tags of
\* the earlier lines are taken
RECURSIVE LineTag(_, _)
LineTag(seq, k) ==
    IF k = 1 THEN 1
    ELSE NumberStmts(LineSource(seq[k - 1]), LineTag(seq, k - 1), <<>>).n

Line(seq, k) == NumberStmts(LineSource(seq[k]), LineTag(seq, k), <<>>).x

\* a runline that runs the statements whether or not resolve accepted them
runline_run_first(stmts, st, rs) ==
    Let(resolve([rs EXCEPT !.err = "Ok", !.locals = st.locals], stmts), LAMBDA r :
        Let(RunMany(stmts, [st EXCEPT !.locals = r.locals]), LAMBDA x :
            [st |-> x.st, rs |-> [r EXCEPT !.err = "Ok", !.locals = EmptyMap],
             r |-> IF r.err # "Ok" THEN r.err ELSE x.r]))

\* runline: resolver.resolve(&stmts, interpreter)?;
\*          interpreter.run_many(stmts)?; Ok(())
runline(stmts, st, rs) ==
    Let(resolve([rs EXCEPT !.err = "Ok", !.locals = st.locals], stmts), LAMBDA r :
        IF r.err # "Ok"
        THEN [st |-> [st EXCEPT !.locals = r.locals],
              rs |-> [r EXCEPT !.err = "Ok", !.locals = EmptyMap], r |-> r.err]
        ELSE Let(RunMany(stmts, [st EXCEPT !.locals = r.locals]), LAMBDA x :
                 [st |-> x.st, rs |-> [r EXCEPT !.err = "Ok", !.locals = EmptyMap],
                  r |-> x.r]))

ReplInit ==
    /\ prog \in ReplSessions
    /\ phase = "prompt"
    /\ pc = 1
    /\ result = "None"
    /\ resolver = NewResolver
    /\ locals = EmptyMap
    /\ env = 1
    /\ envs = <<>>
    /\ heap = <<EnvInner(0)>>
    /\ insts = <<>>
    /\ writer = <<>>
    /\ log = <<>>
    /\ hasher = "mismatch_first"
    /\ overflow_checks = TRUE

\* rl.readline gives a line: runline(line, &mut interpreter, &mut resolver)
ReplLine ==
    /\ phase = "prompt"
    /\ pc <= Len(prog.seq)
    /\ \E x \in {runline(Line(prog.seq, pc), State, resolver)} :
          /\ resolver' = x.rs
          /\ locals' = x.st.locals
          /\ env' = x.st.env
          /\ envs' = x.st.envs
          /\ heap' = x.st.heap
          /\ insts' = x.st.insts
          /\ writer' = x.st.writer
          /\ log' = x.st.log
          /\ result' = x.r
    /\ pc' = pc + 1
    /\ UNCHANGED <<prog, phase, hasher,
                   overflow_checks>>

\* rl.readline gives Eof or Interrupted: break
ReplEof ==
    /\ phase = "prompt"
    /\ pc > Len(prog.seq)
    /\ phase' = "done"
    /\ UNCHANGED <<prog, pc, result, resolver, locals, env, envs, heap, insts,
                   writer, log, hasher,
                   overflow_checks>>

ReplNext == ReplLine \/ ReplEof

ReplSpec == ReplInit /\ [][ReplNext]_vars

\* ------------------------------------------------------------------------
\* Two runs of one program, each by runfile on a fresh interpreter with a
\* fresh resolver (and, being another process, its own RandomState).  The
\* outcome of the first run is kept in log for comparison.
\* ------------------------------------------------------------------------
\* Interpreter::new in a process whose HashMaps iterate in the order h
Fresh(h) ==
    [env |-> 1, envs |-> <<>>, locals |-> EmptyMap, heap |-> <<EnvInner(0)>>,
     insts |-> <<>>, writer |-> <<>>, log |-> <<>>, hasher |-> h,
     overflow_checks |-> overflow_checks]

\* runfile: Resolver::new(); resolver.resolve(&stmts, interpreter)?;
\*          interpreter.run_many(stmts)
runfile(stmts, st) == runline(stmts, st, NewResolver)

TwiceInit == Init

RunFirst ==
    /\ phase = "parsed"
    /\ \E x \in {runfile(Program(prog), State)} :
          /\ resolver' = x.rs
          /\ locals' = x.st.locals
          /\ env' = x.st.env
          /\ envs' = x.st.envs
          /\ heap' = x.st.heap
          /\ insts' = x.st.insts
          /\ writer' = x.st.writer
          /\ log' = x.st.log
          /\ result' = x.r
    /\ phase' = "once"
    /\ UNCHANGED <<prog, pc, hasher,
                   overflow_checks>>

RunSecond ==
    /\ phase = "once"
    /\ \E h \in Hashers :
          \E x \in {runfile(Program(prog), Fresh(h))} :
             /\ hasher' = h
             /\ overflow_checks' = overflow_checks
             /\ resolver' = x.rs
             /\ locals' = x.st.locals
             /\ env' = x.st.env
             /\ envs' = x.st.envs
             /\ heap' = x.st.heap
             /\ insts' = x.st.insts
             /\ writer' = x.st.writer
             /\ result' = x.r
             /\ log' = <<[e |-> "first", writer |-> writer, result |-> result]>>
    /\ phase' = "twice"
    /\ UNCHANGED <<prog, pc>>

TwiceNext == RunFirst \/ RunSecond

TwiceSpec == TwiceInit /\ [][TwiceNext]_vars

\* ------------------------------------------------------------------------
\* Properties
\* ------------------------------------------------------------------------
Done == phase = "done"

\* the text `print` writes for the string s
Quoted(s) == "\"" \o s \o "\""

\* the statements of the program that have run
Executed == IF phase = "parsed" THEN 0 ELSE pc - 1

LogIndex == 1..Len(log)

\* C1: in a run of a program the resolver accepts, every lookup of a
\* variable, of `this` or of `super` finds the name at its resolved
\* distance: the run never ends with an undefined-variable or a
\* no-enclosing-environment error.
C1_LookupsSucceed ==
    Done => result \notin {"UndefinedVariable", "NoEnclosingEnv", "Unresolved"}

\* the output of the counter program: each closure pair made by one call of
\* mk has its own i, which inc and get of that pair share
CounterExpected(seq) ==
    LET RECURSIVE go(_, _, _)
        go(ops, a, b) ==
            IF ops = <<>> THEN <<>>
            ELSE CASE Head(ops) = "ai" ->
                        <<ToString(a + 1)>> \o go(Tail(ops), a + 1, b)
                   [] Head(ops) = "ag" -> <<ToString(a)>> \o go(Tail(ops), a, b)
                   [] Head(ops) = "bi" ->
                        <<ToString(b + 1)>> \o go(Tail(ops), a, b + 1)
                   [] Head(ops) = "bg" -> <<ToString(b)>> \o go(Tail(ops), a, b)
    IN  go(seq, 0, 0)

CounterSetup == Len(CounterSource(<<>>))

\* C2: the closures made by one call of the enclosing function share the
\* captured variable (an assignment by one is read by the other and by its
\* own later calls), and the closures made by another call have their own.
C2_SharedCapture ==
    (prog.fam = "counter" /\ phase \in {"resolved", "done"}) =>
        /\ result \in {"None", "Ok"}
        /\ writer = CounterExpected(
               SubSeq(prog.seq, 1,
                      IF Executed > CounterSetup THEN Executed - CounterSetup
                      ELSE 0))

C2_Witness ==
    /\ Done
    /\ prog = Desc("counter", "", <<"ai", "ai", "ag">>)
    /\ writer = <<"1", "2", "2">>

\* the output of the scope program: the function always uses the global a;
\* the block's own prints use the block's a once it is declared
ScopeExpected(kind, at) ==
    LET g == Quoted("global")
        b == Quoted("block")
    IN  IF kind \in {"read", "readb"}
        THEN <<g, g, IF at \in {"0", "1", "2"} THEN b ELSE g, g>>
        ELSE <<IF at = "0" THEN b ELSE Quoted("s1"),
               IF at \in {"0", "1"} THEN b ELSE Quoted("s2"),
               IF at \in {"0", "1", "2"} THEN b ELSE Quoted("s2"),
               Quoted("s2")>>

\* C3: a reference in a function body denotes the same declaration on every
\* call; a same-named declaration made later in the enclosing block does
\* not change what the reference reads or assigns.
C3_StaticBinding ==
    (prog.fam = "scope" /\ Done) =>
        /\ result = "Ok"
        /\ writer = ScopeExpected(prog.kind, prog.seq[1])

C3_Witness ==
    /\ Done
    /\ prog = Desc("scope", "read", <<"1">>)
    /\ writer = <<Quoted("global"), Quoted("global"), Quoted("block"),
                  Quoted("global")>>

\* C4: when a call completes without a runtime error, by the end of the body
\* or by a return at any nesting, the current environment is the one from
\* before the call and the stack of saved environments has its depth from
\* before the call; the body ran in a new scope whose parent is the
\* function's closure, never the caller's environment.
C4_CallRestoresEnv ==
    /\ \A i \in LogIndex : log[i].e = "exit" =>
          /\ log[i].env = log[i].caller
          /\ log[i].depth = log[i].depth_before
          /\ log[i].parent = log[i].closure
          /\ log[i].scope \notin {log[i].caller, log[i].closure}
          /\ \A j \in LogIndex :
                (j # i /\ log[j].e = "exit") => log[j].scope # log[i].scope
    /\ phase = "resolved" => (env = 1 /\ envs = <<>>)

C4_Witness ==
    /\ Done
    /\ result = "Ok"
    /\ prog = Desc("return", "fun", <<"while", "block">>)
    /\ \E i \in LogIndex :
          /\ log[i].e = "exit"
          /\ log[i].caller # log[i].closure
          /\ log[i].env = log[i].caller
          /\ log[i].v = VInt(11)

\* C5: a return inside any nesting of blocks, conditionals and loops ends
\* exactly the call it is in: the rest of the body is skipped, the call
\* completes with the returned value (an initializer with its instance) and
\* the return signal never leaves the run as an error.
C5_ReturnEndsCall ==
    /\ result # "RetJump"
    /\ \A k \in 1..Len(writer) : writer[k] # Quoted("after")
    /\ \A i \in LogIndex : log[i].e = "return" =>
          /\ i < Len(log)
          /\ log[i + 1].e = "exit"
          /\ log[i + 1].depth = log[i].depth - 1
          /\ (log[i + 1].is_initializer \/ log[i + 1].v = log[i].v)

\* C6: every call of an initializer, by calling the class or by calling
\* init on an instance, completes with the instance bound as `this`.
C6_InitReturnsInstance ==
    \A i \in LogIndex : (log[i].e = "enter" /\ log[i].is_initializer) =>
        \E j \in LogIndex :
            /\ j > i
            /\ log[j].e = "exit"
            /\ log[j].scope = log[i].scope
            /\ log[j].v = heap[log[i].closure].values["this"]

\* the output of the super program for super.<meth> in B
SuperExpected(meth) ==
    CASE meth = "m" -> <<Quoted("A.m"), Quoted("t"), Quoted("A.m"), Quoted("t"),
                         Quoted("next")>>
      [] meth = "x" -> <<Quoted("A0.x"), Quoted("t"), Quoted("A0.x"), Quoted("t"),
                         Quoted("next")>>
      [] meth = "zz" -> <<>>

\* C7: super.m in a method of B, whose superclass is A, is the m found by
\* searching A and then A's ancestors, never B's own or a subclass's, bound
\* to the current `this`, also when `this` is an instance of a subclass of
\* B; a method that is not found is a runtime error.
C7_SuperLookup ==
    (prog.fam = "super" /\ Done) =>
        /\ writer = SuperExpected(prog.seq[1])
        /\ result = IF prog.seq[1] = "zz" THEN "UndefinedProperty" ELSE "Ok"

C7_Witness ==
    /\ Done
    /\ prog = Desc("super", "C", <<"x">>)
    /\ writer = SuperExpected("x")
    /\ \E i \in LogIndex :
          log[i].e = "bind" /\ log[i].method = "x" /\ insts[log[i].ref].class.name = "C"

\* the run of the property program: its output and how it ends
PropExpected(kind, seq) ==
    LET name == IF kind = "own" THEN "Q.name" ELSE "P.name"
        RECURSIVE go(_, _, _)
        go(ops, shadowed, out) ==
            IF ops = <<>> THEN [out |-> out, r |-> "Ok"]
            ELSE CASE Head(ops) = "method" ->
                        IF shadowed THEN [out |-> out, r |-> "NotCallable"]
                        ELSE go(Tail(ops), shadowed, Append(out, Quoted(name)))
                   [] Head(ops) \in {"bound", "field"} ->
                        go(Tail(ops), shadowed, Append(out, Quoted("field")))
                   [] Head(ops) = "shadow" -> go(Tail(ops), TRUE, out)
                   [] Head(ops) = "read" ->
                        go(Tail(ops), shadowed,
                           Append(out, IF shadowed THEN Quoted("fld")
                                       ELSE "<fn name>"))
                   [] Head(ops) = "undef" ->
                        [out |-> out, r |-> "UndefinedProperty"]
                   [] Head(ops) \in {"string", "class"} ->
                        [out |-> out, r |-> "OnlyInstancesHaveProperties"]
    IN  go(seq, FALSE, <<>>)

\* C8: o.name is the field when o has one (a field shadows a method), else
\* the first method of that name along the class chain bound to o, else an
\* undefined-property error; on a value that is not an instance it is a
\* runtime error.
C8_PropertyLookup ==
    (prog.fam = "prop" /\ Done) =>
        /\ writer = PropExpected(prog.kind, prog.seq).out
        /\ result = PropExpected(prog.kind, prog.seq).r

C8_Witness ==
    /\ Done
    /\ prog = Desc("prop", "inherit", <<"shadow", "read">>)
    /\ writer = <<Quoted("fld")>>
    /\ "name" \in DOMAIN insts[1].fields
    /\ find_method(insts[1].class, "name") # None

ConstructArity(kind) ==
    CASE kind = "Base" -> 1 [] kind = "Own" -> 2 [] kind = "Inh" -> 1
      [] kind = "Plain" -> 0

ConstructFields(kind) ==
    CASE kind \in {"Base", "Inh"} -> Insert(EmptyMap, "a", VStr("x"))
      [] kind = "Own" -> Insert(Insert(EmptyMap, "a", VStr("x")), "b", VStr("x"))
      [] kind = "Plain" -> EmptyMap

\* C9: a call of a class with n arguments succeeds only if n is the number
\* of parameters of the init found along the class chain, 0 when there is
\* none; a call that succeeds gives a new instance, distinct from every
\* other, whose fields are those set by that one call of init.
C9_Construct ==
    /\ \A i, j \in LogIndex :
          (i # j /\ log[i].e = "new" /\ log[j].e = "new") => log[i].ref # log[j].ref
    /\ (prog.fam = "construct" /\ Done) =>
          IF Len(prog.seq) = ConstructArity(prog.kind)
          THEN /\ result = "Ok"
               /\ Len(insts) = 2
               /\ heap[1].values["o"] = VInstance(1)
               /\ heap[1].values["p"] = VInstance(2)
               /\ insts[1].fields = ConstructFields(prog.kind)
               /\ insts[2].fields = Insert(ConstructFields(prog.kind), "z", VStr("z"))
          ELSE /\ result = "ArityMismatch"
               /\ insts = <<>>

C9_Witness ==
    /\ Done
    /\ prog = Desc("construct", "Inh", <<"x">>)
    /\ result = "Ok"
    /\ Len(insts) = 2
    /\ insts[1].fields # insts[2].fields

BindSetup == Len(BindSource(<<>>))

BindExpected(seq) ==
    [j \in 1..Len(seq) |->
        IF seq[j] \in {"m1", "d1"} THEN Quoted("one") ELSE Quoted("two")]

\* C10: binding a method leaves the class's method table, the unbound
\* method and its closure environment as they were; `this` is defined only
\* in a new child environment of the method's closure; methods bound to
\* different instances see their own `this`, also when a bound method is
\* kept in a variable and called later.
C10_BindFrame ==
    /\ \A i \in LogIndex : log[i].e = "bind" =>
          /\ log[i].after = log[i].before
          /\ log[i].env # log[i].closure
          /\ heap[log[i].env].enclosing = log[i].closure
          /\ heap[log[i].env].values = Insert(EmptyMap, "this", VInstance(log[i].ref))
          /\ "this" \notin DOMAIN heap[log[i].closure].values
          /\ \A j \in LogIndex :
                (j # i /\ log[j].e = "bind") => log[j].env # log[i].env
          /\ \A x \in DOMAIN heap[1].values :
                heap[1].values[x].t = "Class" =>
                    \A m \in DOMAIN heap[1].values[x].c.methods :
                        heap[1].values[x].c.methods[m].closure # log[i].env
    /\ (prog.fam = "bind" /\ phase \in {"resolved", "done"}) =>
          /\ result \in {"None", "Ok"}
          /\ writer = BindExpected(
                 SubSeq(prog.seq, 1,
                        IF Executed > BindSetup THEN Executed - BindSetup ELSE 0))

C10_Witness ==
    /\ Done
    /\ prog = Desc("bind", "", <<"m2", "m1", "d2">>)
    /\ writer = <<Quoted("two"), Quoted("one"), Quoted("two")>>

\* the output of the block program: inside the block a names the block's
\* own variable from its declaration on and the enclosing one before it
BlockDecls(seq) == {j \in 1..Len(seq) : seq[j] = "decl"}
BlockExpected(seq) ==
    LET RECURSIVE go(_, _, _, _)
        go(j, declared, outer, inner) ==
            IF j > Len(seq) THEN <<Quoted(outer)>>
            ELSE CASE seq[j] = "decl" -> go(j + 1, TRUE, outer, "inner")
                   [] seq[j] = "assign" ->
                        IF declared THEN go(j + 1, declared, outer, "s" \o ToString(j))
                        ELSE go(j + 1, declared, "s" \o ToString(j), inner)
                   [] seq[j] = "print" ->
                        <<Quoted(IF declared THEN inner ELSE outer)>>
                        \o go(j + 1, declared, outer, inner)
    IN  go(1, FALSE, "outer", "")

\* C11: a block changes a binding of an enclosing scope only by assigning to
\* a name it has not declared itself; from its `var` declaration on, the
\* name denotes the block's own variable, and after the block the enclosing
\* variable holds its value from before the block unless such an assignment
\* was made.
C11_BlockScope ==
    prog.fam = "block" =>
        /\ phase = "rejected" => Cardinality(BlockDecls(prog.seq)) > 1
        /\ Done =>
              /\ result = "Ok"
              /\ writer = BlockExpected(prog.seq)
              /\ env = 1 /\ envs = <<>>

C11_Witness ==
    /\ Done
    /\ prog = Desc("block", "local", <<"assign", "decl", "assign">>)
    /\ writer = <<Quoted("s1")>>

\* the scope exactly `up` links above env, 0 when the chain is shorter
RECURSIVE Ancestor(_, _, _)
Ancestor(h, e, up) ==
    IF e = 0 \/ up = 0 THEN e ELSE Ancestor(h, h[e].enclosing, up - 1)

EnvBinds(h, e) == e # 0 /\ "a" \in DOMAIN h[e].values

\* C12: get and assign consult only the scope exactly `distance` links above
\* the starting scope: when it does not bind the name, or the chain is
\* shorter, they return an error whatever the other scopes bind, and a
\* failing assign leaves every scope as it was; when it binds the name they
\* read or replace that scope's binding and no other.
C12_ExactDistance ==
    [][(prog.fam = "env" /\ phase = "parsed" /\ phase' = "done") =>
         LET target == Ancestor(heap, env, pc)
         IN  /\ ~EnvBinds(heap, target) =>
                   /\ result' \in {"UndefinedVariable", "NoEnclosingEnv"}
                   /\ heap' = heap
                   /\ writer' = <<>>
             /\ (EnvBinds(heap, target) /\ prog.kind = "assign") =>
                   /\ result' = "Ok"
                   /\ heap' = [heap EXCEPT ![target].values["a"] = VStr("new")]
             /\ (EnvBinds(heap, target) /\ prog.kind = "get"
                   /\ heap[target].values["a"] # None) =>
                   /\ result' = "Ok"
                   /\ writer' = <<"v" \o ToString(target)>>
                   /\ heap' = heap]_vars

\* a failing assign from a scope that binds the name itself
C12_Witness ==
    /\ phase = "done"
    /\ prog = Desc("env", "assign", <<>>)
    /\ result = "UndefinedVariable"
    /\ pc = 1 /\ env = 3
    /\ EnvBinds(heap, 3) /\ ~EnvBinds(heap, 2) /\ EnvBinds(heap, 1)

\* C13: a division whose divisor is the Int 0 or a Float zero, the dividend
\* being any Int or Float, ends in the runtime error for a division by
\* zero: it prints no quotient (no inf, no NaN) and does not panic; any
\* other of the divisors prints a quotient.
C13_DivideByZero ==
    (prog.fam = "div" /\ Done) =>
        IF prog.seq[2] \in {"0", "0.0", "-0.0"}
        THEN result = "DivideByZero" /\ writer = <<>>
        ELSE result = "Ok" /\ Len(writer) = 1

C13_Witness ==
    /\ Done
    /\ prog = Desc("div", "var", <<"-2.5", "-0.0">>)
    /\ result = "DivideByZero"

\* a division of Floats that goes through
C13_Quotient ==
    (Done /\ prog.fam = "div" /\ prog.seq = <<"-3", "0.5">>) => writer = <<"-6">>

\* the parameters of what the arity program calls, and what its body prints
ArityExpected(kind) == IF kind = "method" THEN 1 ELSE 2
ArityBody(kind) ==
    CASE kind = "class" -> "init" [] kind = "method" -> "method" [] OTHER -> "body"

\* the calls entered so far
Entered == {i \in LogIndex : log[i].e = "enter"}

\* C14: a call of a function, a method or a class with a number of
\* arguments other than its parameters is a runtime error that names the
\* expected and the actual count; no statement of the body or initializer
\* runs, no instance is made, and the current environment and the stack of
\* saved environments are those at the point of the call.
C14_ArityMismatch ==
    (prog.fam = "arity" /\ Done) =>
        IF Len(prog.seq) = ArityExpected(prog.kind)
        THEN /\ result = "Ok"
             /\ writer = <<Quoted("init"), Quoted(ArityBody(prog.kind)),
                           Quoted("next")>>
        ELSE /\ result = "ArityMismatch"
             /\ writer = <<Quoted("init")>>
             /\ Len(insts) = 1
             /\ LET last == log[Len(log)]
                IN  /\ last.e = "arity"
                    /\ last.expected = ArityExpected(prog.kind)
                    /\ last.got = Len(prog.seq)
                    /\ env = last.env
                    /\ Len(envs) = last.depth
             /\ CASE prog.kind = "nested" ->
                       /\ Cardinality(Entered) = 2
                       /\ envs = <<1>> /\ heap[env].enclosing = 1
                  [] prog.kind = "block" ->
                       /\ Cardinality(Entered) = 1
                       /\ envs = <<>> /\ heap[env].enclosing = 1
                  [] OTHER ->
                       /\ Cardinality(Entered) = 1
                       /\ envs = <<>> /\ env = 1

C14_Witness ==
    /\ Done
    /\ prog = Desc("arity", "class", <<"x", "x", "x">>)
    /\ result = "ArityMismatch"
    /\ log[Len(log)].e = "arity"

\* the text printed for an operand of the logic program, and its truth
LogicText(name) ==
    CASE name = "empty" -> Quoted("") [] OTHER -> name
LogicTruthy(name) == name \notin {"nil", "false"}

\* C15: `a and b` is the value of a when a is falsy and the value of b
\* otherwise; `a or b` is the value of a when a is truthy and the value of
\* b otherwise; the value is the operand's own, not a Boolean made from it,
\* and b is not evaluated when a decides.
C15_ShortCircuit ==
    (prog.fam = "logic" /\ Done) =>
        LET a == prog.seq[1]
            b == prog.seq[2]
            decided == IF prog.kind = "and" THEN ~LogicTruthy(a) ELSE LogicTruthy(a)
        IN  /\ result = "Ok"
            /\ writer = IF decided THEN <<LogicText(a), "0">>
                        ELSE <<LogicText(b), "1">>
            /\ Cardinality(Entered) = IF decided THEN 0 ELSE 1

C15_Witness ==
    /\ Done
    /\ prog = Desc("logic", "or", <<"0", "true">>)
    /\ writer = <<"0", "0">>

\* the kind of value an operand of the eq program names
EqKind(name) ==
    CASE name \in {"a", "b", "c"} -> "Instance"
      [] name = "f" -> "Function"
      [] name = "A" -> "Class"
      [] OTHER -> name

\* C16: for any two values, instances whose fields lead back to themselves
\* included, `a == b` and `a != b` complete with a Boolean and never with an
\* error; `!=` is the negation of `==`, and values of different kinds are
\* unequal.
C16_EqualityTotal ==
    (prog.fam = "eq" /\ Done) =>
        /\ result = "Ok"
        /\ writer \in {<<"true", "false">>, <<"false", "true">>}
        /\ EqKind(prog.seq[1]) # EqKind(prog.seq[2]) => writer[1] = "false"

\* the same for the programs whose instances do not lead back to themselves
C16_AcyclicEquality ==
    (prog.fam = "eq" /\ prog.kind \in {"plain", "nested"} /\ Done) =>
        /\ result = "Ok"
        /\ writer \in {<<"true", "false">>, <<"false", "true">>}
        /\ EqKind(prog.seq[1]) # EqKind(prog.seq[2]) => writer[1] = "false"

\* a comparison of an instance with itself that does not complete
C16_SelfReference ==
    /\ Done
    /\ prog = Desc("eq", "self", <<"a", "a">>)
    /\ result = "Abort"
    /\ writer = <<>>

\* C17: a reference to a name that no scope of the resolver declares at that
\* point is accepted and taken to be a global, so that a function body may
\* refer to a global declared later in the program.
C17_ForwardReference ==
    prog.fam = "forward" =>
        /\ phase # "rejected"
        /\ Done => (result = "Ok" /\ writer = <<"1">>)

\* the resolver refuses the reference to a global declared later
C17_Rejected ==
    /\ prog = Desc("forward", "fun", <<>>)
    /\ phase = "rejected"
    /\ result = "UnknownVariable"

\* a reference to a global declared earlier is accepted
C17_DeclaredBefore ==
    (prog = Desc("forward", "before", <<>>) /\ phase # "parsed") =>
        /\ phase # "rejected"
        /\ Done => (result = "Ok" /\ writer = <<"1">>)

\* C18: a declaration, by var, fun or class, of a name already declared in
\* the same block scope, whatever declared it first (a parameter of the
\* function whose body it is included), is rejected by the resolver; the
\* same declaration in a nested block is accepted.
C18_Redeclaration ==
    (prog.fam = "redecl" /\ phase # "parsed") =>
        IF prog.kind = "same"
        THEN phase = "rejected" /\ result = "AlreadyDeclared"
        ELSE phase # "rejected"

\* a function declared over a variable of the same scope is accepted
C18_Accepted ==
    /\ prog = Desc("redecl", "same", <<"var", "fun">>)
    /\ Done
    /\ result = "Ok"

\* the redeclarations by var are rejected, and shadowing is accepted
C18_VarRedeclaration ==
    (prog.fam = "redecl" /\ phase # "parsed"
        /\ (prog.kind = "nested" \/ prog.seq[2] = "var")) =>
        IF prog.kind = "same"
        THEN phase = "rejected" /\ result = "AlreadyDeclared"
        ELSE phase # "rejected"

\* C19: in a method named init, `return e;` is a resolution error for every
\* expression e, the literal nil written out included, while `return;` is
\* accepted; in a function or lambda nested in init, `return e;` is
\* accepted.
C19_InitReturn ==
    (prog.fam = "initret" /\ phase # "parsed") =>
        IF prog.kind = "init" /\ prog.seq[1] # "bare"
        THEN phase = "rejected" /\ result = "ReturnValueFromInitializer"
        ELSE phase # "rejected" /\ (Done => result = "Ok")

\* `return nil;` in init is accepted and the program runs
C19_NilAccepted ==
    /\ prog = Desc("initret", "init", <<"nil">>)
    /\ Done
    /\ result = "Ok"
    /\ writer = <<Quoted("done")>>

\* the same with `return nil;` left aside
C19_OtherReturns ==
    (prog.fam = "initret" /\ phase # "parsed"
        /\ ~(prog.kind = "init" /\ prog.seq[1] = "nil")) =>
        IF prog.kind = "init" /\ prog.seq[1] # "bare"
        THEN phase = "rejected" /\ result = "ReturnValueFromInitializer"
        ELSE phase # "rejected" /\ (Done => result = "Ok")

\* C20: `super` in a method of a class declared without a superclass is a
\* resolution error, also when that class is declared inside a method of a
\* class that has a superclass.
C20_SuperWithoutSuperclass ==
    (prog.fam = "nosuper" /\ phase # "parsed") =>
        IF prog.kind = "with"
        THEN phase # "rejected" /\ (Done => writer = <<Quoted("A.m")>>)
        ELSE phase = "rejected" /\ result = "SuperWithoutSuperclass"

\* the nested class's `super` is accepted and calls the method of the
\* enclosing class's superclass
C20_NestedAccepted ==
    /\ prog = Desc("nosuper", "nested", <<>>)
    /\ Done
    /\ result = "Ok"
    /\ writer = <<Quoted("A.m")>>

\* the same for the classes that no class with a superclass encloses
C20_NotEnclosed ==
    (prog.fam = "nosuper" /\ prog.kind # "nested" /\ phase # "parsed") =>
        IF prog.kind = "with"
        THEN phase # "rejected" /\ (Done => writer = <<Quoted("A.m")>>)
        ELSE phase = "rejected" /\ result = "SuperWithoutSuperclass"

\* C21: a return statement that no function, method or lambda body encloses
\* is rejected by the resolver wherever it sits at top level: directly, in a
\* block, a conditional or a loop, or after the end of a function, lambda or
\* class declaration; a return in a function body is accepted.
C21_TopLevelReturn ==
    (prog.fam = "topreturn" /\ phase # "parsed") =>
        IF prog.kind \in TopReturnOutside
        THEN phase = "rejected" /\ result = "ReturnAtTopLevel" /\ writer = <<>>
        ELSE phase # "rejected" /\ (Done => (result = "Ok" /\ writer = <<"1">>))

C21_Witness ==
    /\ prog = Desc("topreturn", "after_fun", <<>>)
    /\ phase = "rejected"
    /\ result = "ReturnAtTopLevel"

\* C22: resolving `var x = e;` is an error when e reads x while x is
\* declared and not yet initialized, also when an enclosing scope holds an
\* initialized x and also when the read is in the body of a lambda in e;
\* nothing of the program runs.
C22_OwnInitializer ==
    (prog.fam = "owninit" /\ phase # "parsed") =>
        IF prog.kind \in OwnInitReads
        THEN /\ phase = "rejected"
             /\ result \in {"ReadInOwnInitializer", "UninitializedAccess"}
             /\ writer = <<>>
        ELSE phase # "rejected" /\ (Done => result = "Ok")

C22_Witness ==
    /\ prog = Desc("owninit", "lambda_shadow", <<>>)
    /\ phase = "rejected"
    /\ result = "UninitializedAccess"

\* C23: every run on the prompt's interpreter starts in the global
\* environment with no saved environment, whatever the earlier lines did,
\* a line that ended in a runtime error inside a block or a call included.
C23_RunStartsGlobal ==
    phase = "prompt" => (env = 1 /\ envs = <<>>)

\* the errors resolve returns
ResolveErrors ==
    {"AlreadyDeclared", "SuperWithoutSuperclass", "UnknownVariable",
     "UninitializedAccess", "ReadInOwnInitializer", "ThisOutsideClass",
     "SuperOutsideClass", "ReturnAtTopLevel", "ReturnValueFromInitializer",
     "InheritFromItself"}

\* the line the prompt has just handed to runline was rejected by resolve
LineRejected == pc' = pc + 1 /\ result' \in ResolveErrors

\* C24: when resolve rejects a line, none of the line's statements runs:
\* the output, the environments (the global one included) and the instances
\* are what they were before the line.
C24_NoPartialExecution ==
    [][LineRejected =>
          /\ writer' = writer
          /\ heap' = heap
          /\ insts' = insts
          /\ env' = env
          /\ envs' = envs]_vars

\* the second line, `print 7; fun g() { print zz; }`, is rejected for zz
\* after the first line has printed: its `print 7` did not run
C24_Witness ==
    /\ prog.seq = <<"var_b", "fun_fail">>
    /\ pc = 3
    /\ result \in ResolveErrors
    /\ writer = <<"2">>

\* C27: on the prompt, a read or an assignment of a global name that
\* resolve accepted finds the name bound when it executes, also when the
\* line that declared the name failed before its declaration completed: no
\* line ends with an undefined-variable error.
C27_GlobalsBound ==
    result \notin {"UndefinedVariable", "NoEnclosingEnv", "Unresolved"}

\* C28: when resolve rejects a line it leaves the resolver's scope stack as
\* deep as it found it and its function, class and loop context as they
\* were, so that the next line is resolved as if the rejected one had not
\* been entered.
C28_ResolverRestored ==
    [][LineRejected =>
          /\ Len(resolver'.scopes) = Len(resolver.scopes)
          /\ resolver'.current_function = resolver.current_function
          /\ resolver'.current_class = resolver.current_class
          /\ resolver'.current_loop = resolver.current_loop]_vars

\* C25: two runs of a program, each with a fresh resolver and a fresh
\* interpreter, print the same lines and end with the same outcome.
C25_Deterministic ==
    phase = "twice" =>
        (log[1].writer = writer /\ log[1].result = result)

\* apart from the comparison of instances that reach themselves through
\* their fields (C16), the two runs agree
C25_DeterministicAcyclic ==
    (phase = "twice" /\ ~(prog.fam = "eq" /\ result = "Abort")
                     /\ ~(prog.fam = "eq" /\ log[1].result = "Abort")) =>
        (log[1].writer = writer /\ log[1].result = result)

C25_Agree ==
    /\ phase = "twice"
    /\ prog = Desc("counter", "", <<"ai", "ai", "ag">>)
    /\ log[1].writer = <<"1", "2", "2">>
    /\ writer = <<"1", "2", "2">>

\* C26: a read that runs never targets a variable that was declared without
\* an initializer and has not been assigned by the run so far.  In the
\* uninit programs the only value ever assigned to a is 1, so the read of
\* an accepted program prints 1.
C26_NoUninitializedRead ==
    (prog.fam = "uninit" /\ Done /\ result = "Ok") => writer = <<"1">>

\* it holds when the assignment has run, and a program with no assignment
\* at all is rejected
C26_AssignedFirst ==
    (prog.fam = "uninit" /\ phase # "parsed") =>
        CASE prog.kind = "plain" ->
                phase = "rejected" /\ result = "UninitializedAccess"
          [] prog.kind \in UninitAssigned ->
                phase # "rejected" /\ (Done => (result = "Ok" /\ writer = <<"1">>))
          [] OTHER -> phase # "rejected"

C26_AssignedRead ==
    Done /\ prog = Desc("uninit", "called", <<>>) /\ writer = <<"1">>

\* what the order programs print when the callee expression is evaluated
\* first, then the arguments from left to right, then the checks are made
OrderCalleeFirst(kind) ==
    CASE kind = "call" ->
            <<Quoted("callee"), Quoted("a1"), Quoted("a2"), Quoted("body")>>
      [] kind = "arity" -> <<Quoted("callee"), Quoted("a1")>>
      [] kind = "notcallable" -> <<Quoted("callee"), Quoted("a1"), Quoted("a2")>>
      [] kind = "args" -> <<Quoted("a1"), Quoted("a2"), Quoted("body")>>

OrderOutcome(kind) ==
    CASE kind = "arity" -> "ArityMismatch"
      [] kind = "notcallable" -> "NotCallable"
      [] OTHER -> "Ok"

\* C29: a call evaluates its callee expression, then its arguments from
\* left to right, and only then checks that the callee can be called and
\* that the number of arguments fits: the prints of the callee expression
\* come before those of the arguments.
C29_CalleeFirst ==
    (prog.fam = "order" /\ Done) =>
        /\ writer = OrderCalleeFirst(prog.kind)
        /\ result = OrderOutcome(prog.kind)

\* the arguments are evaluated from left to right and the checks are made
\* after all of them, but the callee expression is evaluated after the
\* arguments
C29_ArgumentsFirst ==
    (prog.fam = "order" /\ Done) =>
        /\ result = OrderOutcome(prog.kind)
        /\ writer =
              CASE prog.kind = "call" ->
                      <<Quoted("a1"), Quoted("a2"), Quoted("callee"), Quoted("body")>>
                [] prog.kind = "arity" -> <<Quoted("a1"), Quoted("callee")>>
                [] prog.kind = "notcallable" ->
                      <<Quoted("a1"), Quoted("a2"), Quoted("callee")>>
                [] prog.kind = "args" -> <<Quoted("a1"), Quoted("a2"), Quoted("body")>>

\* the Int an operand of the int programs stands for
IntValue(name) ==
    CASE name = "min" -> IntMin
      [] name = "-2" -> -2
      [] name = "-1" -> -1
      [] name = "0" -> 0
      [] name = "1" -> 1
      [] name = "2" -> 2
      [] name = "max" -> IntMax

\* the mathematical result of the operation of an int program
IntExact(d) ==
    LET a == IntValue(d.seq[1])
        b == IF d.kind = "Neg" THEN 0 ELSE IntValue(d.seq[2])
    IN  CASE d.kind = "Add" -> a + b
          [] d.kind = "Sub" -> a - b
          [] d.kind = "Mul" -> a * b
          [] d.kind = "Div" -> IF b = 0 THEN 0 ELSE IntDiv(a, b)
          [] d.kind = "Neg" -> -a

IntByZero(d) == d.kind = "Div" /\ IntValue(d.seq[2]) = 0

\* C30: `+`, `-`, `*`, `/` by a divisor other than zero and unary `-` on
\* Ints give an Int or a runtime error for all operands, those whose exact
\* result is outside the range of Int included: the interpreter never
\* panics.
C30_IntArithmeticTotal ==
    (prog.fam = "int" /\ Done) => result # "Panic"

\* when the exact result is an Int it is the value printed, and a division
\* by zero is a runtime error
C30_InRange ==
    (prog.fam = "int" /\ Done) =>
        IF IntByZero(prog) THEN result = "DivideByZero"
        ELSE IF IntExact(prog) >= IntMin /\ IntExact(prog) <= IntMax
             THEN result = "Ok" /\ writer = <<ToString(IntExact(prog))>>
             ELSE \/ result = "Panic" /\ writer = <<>>
                  \/ /\ result = "Ok"
                     /\ ~overflow_checks
                     /\ prog.kind # "Div"
                     /\ writer = <<ToString(wrapping(IntExact(prog)))>>

\* the minimum Int divided by -1 panics whatever the build
C30_DivideOverflow ==
    /\ Done
    /\ prog = Desc("int", "Div", <<"min", "-1">>)
    /\ ~overflow_checks
    /\ result = "Panic"

\* outside the int programs no operation leaves the range of Int
C30_NoOverflowElsewhere ==
    prog.fam # "int" => (overflow_checks /\ result # "Panic")

====
